---- MODULE Spec2Model ----
(***************************************************************************)
(* Model of the VimMotions BetterDiscord plugin: the keystroke routing of  *)
(* handleKeydown / handleKeySequence / handleEnterKey, the mode tracking   *)
(* of setupVimModeHandlers and the mapping management of the settings      *)
(* panel.  Two versions of the plugin exist in the repository:             *)
(*   "plugin" : src/plugins/VimMotions.plugin.js                           *)
(*   "build"  : the plugin embedded in src/scripts/build.js                *)
(* The variable `variant` says which one runs.                             *)
(*                                                                         *)
(* The Ace editor and its Vim keyboard handler are external.  They are     *)
(* modelled by what the plugin's code relies on: Ace's own keydown         *)
(* listener is registered by ace.edit() before the plugin's listener, so   *)
(* the engine sees a key first (this is why handleKeydown can observe      *)
(* justEnteredInsertMode for the very key that entered insert mode);       *)
(* the default action of the event (text input, new line) happens after    *)
(* the plugin's listener unless preventDefault was called.                 *)
(***************************************************************************)
EXTENDS Integers, Sequences, FiniteSets, TLC

VARIABLES
  variant,                \* which version of the plugin runs
  dom,                    \* the inputs present in the host's document
  currentMode,            \* this.currentMode
  justEnteredInsertMode,  \* this.justEnteredInsertMode
  config,                 \* this.config (the nine settings)
  customMappings,         \* this.customMappings
  vimMap,                 \* the mappings registered in the engine by Vim.map
  ed,                     \* this.aceEditors: per input, the editor and its closure state
  focus,                  \* the input whose textarea has the keyboard focus
  now,                    \* Date.now()
  hist,                   \* per input: time of the last single-character keydown, run length,
                          \* and the reference matcher of its key sequences
  ev,                     \* the key event just handled, and what handleKeydown did with it
  selected,               \* SelectedChannelStore.getChannelId()
  previousChannelId,      \* the variable handleChannelChange closes over
  hostDraft,              \* DraftStore: per channel, the host's draft
  draftCache,             \* this.draftCache
  lastProcessedDraft,     \* this.lastProcessedDraft
  stale,                  \* the oldest main-chat editor whose input left the document
  dev,                    \* the host event just handled, and what its listener did
  phase,                  \* what the host did last with the plugin: constructed, started, stopped
  pending,                \* start() is awaiting loadScript
  aceLoaded,              \* this.aceLoaded
  windowAce,              \* window.ace: undefined, defined by the host page, or by the plugin's script
  observer,               \* this.observer is a connected MutationObserver
  styles,                 \* the VimMotions style sheet is in the document
  subs,                   \* the dispatcher subscriptions of the build version
  defaultConfig,          \* this.defaultConfig
  aliased,                \* this.config and this.defaultConfig are the same object
  saved,                  \* BdApi.Data: the persisted "config" entry
  pluginFile,             \* plugins/VimMotions.plugin.js as the build script reads and writes it
  distFile,               \* dist/VimMotions.plugin.js
  built,                  \* the build just run: its version argument and what it wrote
  host,                   \* the host's message module: present, missing, or throwing
  enabled                 \* the host has the plugin enabled: start() was called after the last stop()

vars == <<variant, dom, currentMode, justEnteredInsertMode, config,
          customMappings, vimMap, ed, focus, now, hist, ev,
          selected, previousChannelId, hostDraft, draftCache, lastProcessedDraft,
          stale, dev, phase, pending, aceLoaded, windowAce, observer, styles, subs,
          defaultConfig, aliased, saved, pluginFile, distFile, built, host,
          enabled>>

(* The default settings and the persisted data. *)
cfgVars == <<defaultConfig, aliased, saved>>

(* The state start() and stop() set up and tear down. *)
lifeVars == <<phase, pending, aceLoaded, windowAce, observer, styles, subs>>

(* The files of the build script. *)
buildVars == <<pluginFile, distFile, built>>

(* The state of the draft handling. *)
draftVars == <<selected, previousChannelId, hostDraft, draftCache,
               lastProcessedDraft, stale>>

----------------------------------------------------------------------------
(* Bounds of the model *)

MaxLen == 2         \* longest editor content explored
MaxTicks == 2       \* clock advances explored
MaxMappings == 2    \* longest customMappings list explored

(* Program constants *)

Timeout == 1000     \* sequence.timeout set by initializeKeySequences

HalfTimeout == Timeout \div 2
StartTime == Timeout     \* Date.now() is far beyond one timeout after the epoch
MaxNow == StartTime + MaxTicks * HalfTimeout

Inputs == {"main", "edit"}
Variants == {"plugin", "build"}
Modes == {"insert", "normal", "visual"}
NL == "\n"

vimModeChangeKeys == {"i", "a", "I", "A", "o", "O", "s", "S", "c", "C", "r", "R"}

(* Keys and modifiers the model presses.  A key of length one is a         *)
(* character key (e.key.length === 1).                                     *)
CharKeys == {"j", "k", "i", "v", "c"}
NamedKeys == {"Enter", "Escape"}
IsChar(key) == key \in CharKeys

Max(a, b) == IF a > b THEN a ELSE b
Min(a, b) == IF a < b THEN a ELSE b

----------------------------------------------------------------------------
(* Text of an Ace document as a flat sequence of characters; the cursor is *)
(* an offset 0..Len(text); row and column are derived.                     *)

LineStart(t, c) ==
  LET S == {p \in 0..c : p = 0 \/ t[p] = NL}
  IN  CHOOSE p \in S : \A q \in S : q <= p

LineEnd(t, c) ==
  LET S == {p \in c..Len(t) : p = Len(t) \/ t[p + 1] = NL}
  IN  CHOOSE p \in S : \A q \in S : p <= q

Column(t, c) == c - LineStart(t, c)

InsertAt(t, c, s) == SubSeq(t, 1, c) \o s \o SubSeq(t, c + 1, Len(t))

RemoveRange(t, a, b) == SubSeq(t, 1, a) \o SubSeq(t, b + 1, Len(t))

(* A test for the empty string, without trim(). *)
IsEmptyText(t) == t = <<>>

IsBlank(t) == \A p \in 1..Len(t) : t[p] \in {NL, " "}

IsPrefix(b, keys) == Len(b) <= Len(keys) /\ SubSeq(keys, 1, Len(b)) = b

(* String.prototype.trim *)
Trim(t) ==
  LET S == {p \in 1..Len(t) : t[p] \notin {NL, " "}}
  IN  IF S = {} THEN <<>>
      ELSE SubSeq(t, CHOOSE p \in S : \A q \in S : p <= q,
                     CHOOSE p \in S : \A q \in S : q <= p)

(* String.prototype.includes *)
Includes(t, part) ==
  \E a \in 0..(Len(t) - Len(part)) : SubSeq(t, a + 1, a + Len(part)) = part

(* String.prototype.substring(n) *)
SubstringFrom(t, n) == SubSeq(t, n + 1, Len(t))

----------------------------------------------------------------------------
(* Custom mappings.  `from` is the typed string as a sequence of           *)
(* characters, `to` the target keys, `mode` the Vim mode it applies to.    *)

MapJK == [from |-> <<"j", "k">>, to |-> "<Esc>", mode |-> "insert"]
MapKK == [from |-> <<"k", "k">>, to |-> "gj", mode |-> "insert"]
MapJ  == [from |-> <<"j">>, to |-> "gj", mode |-> "normal"]
MapCe == [from |-> <<"<", "C", "-", "e", ">">>, to |-> "<Right>", mode |-> "insert"]

MappingPool == {MapJK, MapKK, MapJ, MapCe}

LongestFrom == CHOOSE n \in {Len(m.from) : m \in MappingPool} :
                 \A m \in MappingPool : Len(m.from) <= n

(* mapping.from.length > 1 && !mapping.from.startsWith("<") *)
IsSequenceMapping(m) == Len(m.from) > 1 /\ m.from[1] # "<"

(* The single-key mappings applyVimMappings hands to Vim.map. *)
SingleKeyMappings(cm) ==
  {cm[k] : k \in {x \in DOMAIN cm : ~IsSequenceMapping(cm[x])}}

NewSequence(m) ==
  [keys |-> m.from, buffer |-> <<>>, lastTime |-> 0, timeout |-> Timeout,
   action |-> m.to, mode |-> m.mode]

(* initializeKeySequences: a JS Map keyed by `from`, in insertion order;   *)
(* setting an existing key replaces the value and keeps the position.      *)
RECURSIVE InitSequencesFrom(_, _, _)
InitSequencesFrom(cm, idx, acc) ==
  IF idx > Len(cm) THEN acc
  ELSE LET m == cm[idx] IN
       IF ~IsSequenceMapping(m) THEN InitSequencesFrom(cm, idx + 1, acc)
       ELSE LET at == {p \in DOMAIN acc : acc[p].keys = m.from} IN
            IF at = {} THEN InitSequencesFrom(cm, idx + 1, Append(acc, NewSequence(m)))
            ELSE InitSequencesFrom(cm, idx + 1,
                   [acc EXCEPT ![CHOOSE p \in at : TRUE] = NewSequence(m)])

initializeKeySequences(cm) == InitSequencesFrom(cm, 1, <<>>)

----------------------------------------------------------------------------
(* handleKeySequence *)

(* if (timeDiff >= sequence.timeout) sequence.buffer = [] *)
(* Variant: the buffer survives a gap of exactly one timeout. *)
TimedOutStrict(timeDiff, timeout) == timeDiff > timeout

TimedOut(timeDiff, timeout) == timeDiff >= timeout

(* One iteration of the first loop, for a sequence of the current mode.    *)
AdvanceSequence(s, key, t) ==
  LET b0 == IF TimedOut(t - s.lastTime, s.timeout) THEN <<>> ELSE s.buffer
      b1 == Append(b0, key)
      b2 == IF b1 = s.keys \/ IsPrefix(b1, s.keys) THEN b1
            ELSE IF s.keys[1] = key THEN <<key>> ELSE <<>>
  IN  [s EXCEPT !.buffer = b2, !.lastTime = t]

(* The first loop: sequences in Map order, stopping at the first exact     *)
(* match (break); sequences of another mode are skipped.                   *)
RECURSIVE ScanSequences(_, _, _, _, _)
ScanSequences(seqs, idx, key, t, mode) ==
  IF idx > Len(seqs) THEN [seqs |-> seqs, matched |-> 0]
  ELSE IF seqs[idx].mode # mode THEN ScanSequences(seqs, idx + 1, key, t, mode)
  ELSE LET s == AdvanceSequence(seqs[idx], key, t)
           next == [seqs EXCEPT ![idx] = s]
       IN  IF s.buffer = s.keys THEN [seqs |-> next, matched |-> idx]
           ELSE ScanSequences(next, idx + 1, key, t, mode)

(* Clear all buffers after successful match *)
ClearSequences(seqs) ==
  [k \in DOMAIN seqs |-> [seqs[k] EXCEPT !.buffer = <<>>, !.lastTime = 0]]

(* The range session.remove deletes: from max(0, column - charsToRemove)   *)
(* on the cursor's row up to the cursor.  Returns the flat start offset.   *)
RemoveStart(t, c, keys) ==
  LET charsToRemove == Len(keys) - 1
      startCol == Max(0, Column(t, c) - charsToRemove)
  IN  IF charsToRemove > 0 THEN LineStart(t, c) + startCol ELSE c

(* sequence.action === "<Esc>" && vimMode : the keys handed to             *)
(* vim.handleKey when the sequence completes.                              *)
SequenceAction(action, vim) ==
  IF action = "<Esc>" /\ vim # "none" THEN <<"<Esc>">> ELSE <<>>

----------------------------------------------------------------------------
(* The Vim engine of one editor (external; Ace's keyboard/vim).            *)
(* e.vim is the engine's mode, "none" before setKeyboardHandler.           *)
(* EngineKey returns the editor after the key and the mode the engine      *)
(* signals with "vim-mode-change" ("none": no signal).  e.anchor is where  *)
(* the visual selection started; "c" in visual mode deletes the selection  *)
(* and enters insert mode.                                                 *)

RowDown(t, c) ==
  LET le == LineEnd(t, c)
  IN  IF le = Len(t) THEN c
      ELSE Min(le + 1 + Column(t, c), LineEnd(t, le + 1))

RowUp(t, c) ==
  LET ls == LineStart(t, c)
  IN  IF ls = 0 THEN c
      ELSE Min(LineStart(t, ls - 1) + Column(t, c), ls - 1)

NextRowStart(t, c) ==
  LET le == LineEnd(t, c) IN IF le = Len(t) THEN c ELSE le + 1

EngineKey(e, key) ==
  CASE e.vim = "insert" /\ key = "<Esc>" ->
         [e |-> [e EXCEPT !.vim = "normal",
                          !.col = Max(LineStart(e.text, e.col), e.col - 1)],
          emit |-> "normal"]
    [] e.vim = "normal" /\ key = "i" ->
         [e |-> [e EXCEPT !.vim = "insert"], emit |-> "insert"]
    [] e.vim = "normal" /\ key = "v" ->
         [e |-> [e EXCEPT !.vim = "visual", !.anchor = e.col], emit |-> "visual"]
    [] e.vim = "visual" /\ key \in {"v", "<Esc>"} ->
         [e |-> [e EXCEPT !.vim = "normal", !.anchor = 0], emit |-> "normal"]
    [] e.vim = "visual" /\ key = "c" ->
         [e |-> [e EXCEPT !.vim = "insert", !.anchor = 0,
                          !.text = RemoveRange(e.text, Min(e.anchor, e.col),
                                               Min(Max(e.anchor, e.col) + 1,
                                                   Len(e.text))),
                          !.col = Min(e.anchor, e.col)],
          emit |-> "insert"]
    [] e.vim \in {"normal", "visual"} /\ key = "j" ->
         [e |-> [e EXCEPT !.col = RowDown(e.text, e.col)], emit |-> "none"]
    [] e.vim \in {"normal", "visual"} /\ key = "k" ->
         [e |-> [e EXCEPT !.col = RowUp(e.text, e.col)], emit |-> "none"]
    [] e.vim \in {"normal", "visual"} /\ key = "<CR>" ->
         [e |-> [e EXCEPT !.col = NextRowStart(e.text, e.col)], emit |-> "none"]
    [] OTHER -> [e |-> e, emit |-> "none"]

(* The callback of vimMode.on("vim-mode-change"): the plugin's mode state  *)
(* [mode, je] after the engine signalled `emit`.                           *)
OnModeChange(p, emit) ==
  IF emit = "none" THEN p
  ELSE [mode |-> emit,
        je |-> IF p.mode = "normal" /\ emit = "insert" THEN TRUE ELSE p.je]

----------------------------------------------------------------------------
(* handleKeydown and what it calls.  A handler result records the editor   *)
(* and the plugin's mode state [mode, je] afterwards, and what was done.   *)

(* isEditMode(originalInput): the input of a message being edited has the  *)
(* "escape to cancel - enter to save" operations element beside it.        *)
IsEditMode(i) == i = "edit"

Result(e, p) ==
  [e |-> e, p |-> p, prevented |-> FALSE, inserted |-> <<>>, removed |-> <<>>,
   matched |-> <<>>, seqRan |-> FALSE, engineKeys |-> <<>>, sendPath |-> "none"]

(* vim.handleKey(vimMode, key, null) called by the plugin. *)
PluginHandleKey(e, p, key) ==
  LET r == EngineKey(e, key) IN [e |-> r.e, p |-> OnModeChange(p, r.emit)]

(* Variant: either switch sends in every mode. *)
ShouldSendAnyMode(cfg, mode) == cfg.sendInInsertMode \/ cfg.sendInNormalMode

(* shouldSendInInsert || shouldSendInNormal *)
ShouldSend(cfg, mode) ==
  \/ cfg.sendInInsertMode /\ mode = "insert"
  \/ cfg.sendInNormalMode /\ mode # "insert"

(* handleEnterKey.  In the main chat input the editor is cleared after     *)
(* sendMessage and "i" is handed to the engine; with vimMode still null    *)
(* the access vimMode.constructor throws (plugin) or is caught (build),    *)
(* after the editor was cleared.                                           *)
HandleEnterKey(i, e, p, cfg) ==
  IF ~ShouldSend(cfg, p.mode) THEN Result(e, p)
  ELSE IF IsBlank(e.text) THEN [Result(e, p) EXCEPT !.prevented = TRUE]
  ELSE IF IsEditMode(i)
       THEN [Result(e, p) EXCEPT !.prevented = TRUE, !.sendPath = "edit"]
  ELSE LET cleared == [e EXCEPT !.text = <<>>, !.col = 0]
           k == IF e.vim = "none" THEN [e |-> cleared, p |-> p]
                ELSE PluginHandleKey(cleared, p, "i")
       IN  [Result(k.e, k.p) EXCEPT
              !.prevented = TRUE, !.sendPath = "send",
              !.engineKeys = IF e.vim = "none" THEN <<>> ELSE <<"i">>]

(* handleKeySequence: `handled` is its return value. *)
HandleKeySequence(e, p, key, t) ==
  LET sc == ScanSequences(e.seqs, 1, key, t, p.mode) IN
  IF sc.matched = 0
  THEN [Result([e EXCEPT !.seqs = sc.seqs], p) EXCEPT !.seqRan = TRUE]
  ELSE LET s == sc.seqs[sc.matched]
           a == RemoveStart(e.text, e.col, s.keys)
           e1 == [e EXCEPT !.text = RemoveRange(e.text, a, e.col), !.col = a]
           toEngine == SequenceAction(s.action, e.vim)
           k == IF toEngine = <<>> THEN [e |-> e1, p |-> p]
                ELSE PluginHandleKey(e1, p, toEngine[1])
       IN  [Result([k.e EXCEPT !.seqs = ClearSequences(sc.seqs)], k.p) EXCEPT
              !.prevented = TRUE, !.seqRan = TRUE, !.matched = s.keys,
              !.removed = SubSeq(e.text, a + 1, e.col),
              !.engineKeys = toEngine]

(* e.isComposing || e.key === "Process" : the guard of the build version   *)
Ignored(v, composing) == v = "build" /\ composing

(* Variant: sequence detection in every mode. *)
RunsSequencesAnyMode(mode, key) == IsChar(key)

(* this.currentMode === "insert" && e.key.length === 1 && keySequences *)
RunsSequences(mode, key) == mode = "insert" /\ IsChar(key)

(* Variant: every key is skipped right after insert mode was entered. *)
ShouldSkipAnyKey(je, key) == je

(* this.justEnteredInsertMode && vimModeChangeKeys.includes(e.key) *)
ShouldSkipInsertion(je, key) == je /\ key \in vimModeChangeKeys

(* the condition of the manual insertion *)
ShouldInsert(skip, mode, key, mod) ==
  ~skip /\ mode = "insert" /\ IsChar(key) /\ mod \notin {"ctrl", "alt", "meta"}

(* Variant: Enter with Shift takes the send path too. *)
IsEnterKey(key, mod) == key = "Enter"

(* e.key === "Enter" && !e.shiftKey *)
IsSendKey(key, mod) == key = "Enter" /\ mod # "shift"

HandleKeydown(v, i, e, p, cfg, key, mod, composing, t) ==
  IF Ignored(v, composing) THEN Result(e, p)
  ELSE IF IsSendKey(key, mod) THEN HandleEnterKey(i, e, p, cfg)
  ELSE LET q == IF RunsSequences(p.mode, key)
                THEN HandleKeySequence(e, p, key, t)
                ELSE Result(e, p)
       IN  IF q.matched # <<>> THEN q
           ELSE IF ShouldInsert(ShouldSkipInsertion(p.je, key), p.mode, key, mod)
           THEN [q EXCEPT !.prevented = TRUE,
                          !.inserted = <<key>>,
                          !.e = [q.e EXCEPT !.text = InsertAt(q.e.text, q.e.col, <<key>>),
                                            !.col = q.e.col + 1]]
           ELSE q

----------------------------------------------------------------------------
(* Channels, the host's drafts and the plugin's two maps keyed by channel  *)

Channels == {"c1", "c2"}
NoChannel == "none"      \* getChannelId() returns no id

Absent == [has |-> FALSE, text |-> <<>>]
Entry(t) == [has |-> TRUE, text |-> t]

(* map.get(c) || "" *)
MapText(m, c) == IF c \in Channels /\ m[c].has THEN m[c].text ELSE <<>>

MapSet(m, c, t) == IF c \in Channels THEN [m EXCEPT ![c] = Entry(t)] ELSE m

MapDelete(m, c) == IF c \in Channels THEN [m EXCEPT ![c] = Absent] ELSE m

(* DraftActions.clearDraft / saveDraft as seen in DraftStore.getDraft *)
ClearDraft(hd, c) == IF c \in Channels THEN [hd EXCEPT ![c] = <<>>] ELSE hd
SaveDraft(hd, c, t) == IF c \in Channels THEN [hd EXCEPT ![c] = t] ELSE hd

(* The "change" listeners of applyEditorSettings (build): each call has    *)
(* registered one, which sets the cache entry of the channel id cached at  *)
(* that call; e.chans are the channel ids of the editor's listeners.       *)
OnChange(v, e, dc) ==
  IF v = "build" THEN [c \in Channels |-> IF c \in e.chans THEN Entry(e.text) ELSE dc[c]]
  ELSE dc

(* cachedChannelId of applyEditorSettings, as the set of channels the new  *)
(* listener writes to: none in edit mode or when no channel is selected.   *)
CachedChannelId(v, i, sel) ==
  IF v = "build" /\ i # "edit" /\ sel \in Channels THEN {sel} ELSE {}

(* loadInitialContent: the content the new editor starts with; `content`   *)
(* is the text found in the original input.                                *)
LoadInitialContent(v, i, content, sel, dc, hd) ==
  LET own == IF IsBlank(content) THEN <<>> ELSE content
      draft == IF sel \in Channels THEN hd[sel] ELSE <<>>
  IN  IF v = "plugin" THEN (IF own # <<>> THEN own ELSE draft)
      ELSE IF i = "edit" THEN own
      ELSE IF sel = NoChannel THEN <<>>
      ELSE IF ~IsBlank(MapText(dc, sel)) THEN MapText(dc, sel)
      ELSE IF ~IsBlank(draft) THEN draft
      ELSE own

----------------------------------------------------------------------------
(* The build script (scripts/build.js).  A file's content is a sequence of *)
(* blocks: block comments, of which the metadata header carries the text   *)
(* of its @version line after "@version ", and code.                       *)

MaxVersionLen == 3
MaxLineLen == 4

Digits == {"1", "2"}
VersionChars == Digits \cup {".", "b"}

(* the class [\d.] of updateVersion's pattern *)
IsDigitOrDot(ch) == ch \in Digits \cup {"."}

Comment(v) == [kind |-> "comment", version |-> v, minified |-> FALSE]
Code(min) == [kind |-> "code", version |-> <<>>, minified |-> min]

(* The length of what [\d.]+ matches at the start of v, 0 for no match. *)
RECURSIVE DigitRun(_)
DigitRun(v) ==
  IF v # <<>> /\ IsDigitOrDot(Head(v)) THEN 1 + DigitRun(Tail(v)) ELSE 0

(* content.replace(/(@version\s+)[\d.]+/, `$1${newVersion}`): the first    *)
(* match, if there is one, has its digits and dots replaced.               *)
updateVersion(content, newVersion) ==
  LET hits == {k \in DOMAIN content :
                 content[k].kind = "comment" /\ DigitRun(content[k].version) > 0}
  IN  IF hits = {} THEN content
      ELSE LET k == CHOOSE x \in hits : \A y \in hits : x <= y
               v == content[k].version
           IN  [content EXCEPT ![k].version =
                  newVersion \o SubSeq(v, DigitRun(v) + 1, Len(v))]

(* terser.minify with format.comments false: comments are dropped, the     *)
(* code is minified.                                                       *)
Minify(code) ==
  SelectSeq([k \in DOMAIN code |-> [code[k] EXCEPT !.minified = TRUE]],
            LAMBDA b : b.kind = "code")

(* minifyCode: the first block comment is the metadata, the code is the    *)
(* content from the metadata's length on.                                  *)
minifyCode(content) ==
  LET found == {k \in DOMAIN content : content[k].kind = "comment"}
      metadata == IF found = {} THEN <<>>
                  ELSE <<content[CHOOSE x \in found : \A y \in found : x <= y]>>
      code == SubSeq(content, Len(metadata) + 1, Len(content))
  IN  metadata \o Minify(code)

(* The version argument: process.argv[2], undefined when not given. *)
NoVersion == [has |-> FALSE, text |-> <<>>]
Version(t) == [has |-> TRUE, text |-> t]
Versions ==
  UNION {[1..n -> VersionChars] : n \in 1..MaxVersionLen}

NoFile == [has |-> FALSE, content |-> <<>>]
File(c) == [has |-> TRUE, content |-> c]

(* The plugin file as the repository has it ("@version 1.0.0"), no dist    *)
(* output yet.                                                             *)
InitialVersion == <<"1", ".", "1">>
NotBuilt == [ran |-> FALSE, arg |-> NoVersion, wrote |-> FALSE]
InitFiles ==
  /\ pluginFile = <<Comment(InitialVersion), Code(FALSE)>>
  /\ distFile = NoFile
  /\ built = NotBuilt

----------------------------------------------------------------------------
(* State *)

Detached ==
  [attached |-> FALSE, vim |-> "none", timer |-> "done", clickTimer |-> FALSE,
   text |-> <<>>, col |-> 0, anchor |-> 0, seqs |-> <<>>, chans |-> {},
   poll |-> FALSE,
   resize |-> Absent]

(* channelChangeUnsubscribe and draftChangeUnsubscribe are set: the        *)
(* build version subscribes to CHANNEL_SELECT and DRAFT_CHANGE.            *)
Subscribed(v) == [channel |-> v = "build", draft |-> v = "build"]
NoSubscription == [channel |-> FALSE, draft |-> FALSE]

NoHostEvent ==
  [kind |-> "none", chan |-> NoChannel, from |-> NoChannel, content |-> <<>>,
   writes |-> {}, inserted |-> <<>>, target |-> "none", known |-> FALSE]

(* No key pressed yet. *)
NoRef == [len |-> 0, time |-> 0]
NoHist == [t |-> 0, n |-> 0, ref |-> <<>>]

NoEvent ==
  [kind |-> "none", input |-> "none", key |-> "", mod |-> "none",
   composing |-> FALSE, mode |-> "insert", je |-> FALSE, prevented |-> FALSE,
   inserted |-> <<>>, removed |-> <<>>, matched |-> <<>>, seqRan |-> FALSE,
   engineKeys |-> <<>>, sendPath |-> "none", reached |-> FALSE,
   expected |-> <<>>, streak |-> 0,
   blank |-> TRUE,
   delta |-> 0]

(* Content an input holds when the editor is attached: the text of the     *)
(* message being edited, or the channel's draft.                           *)
InitialTexts == {<<>>, <<"k">>}

(* The two send settings. *)
Configs == [sendInInsertMode : BOOLEAN, sendInNormalMode : BOOLEAN]

(* The nine settings. *)
BoolSettings == {"debugMode", "highlightActiveLine", "sendInInsertMode", "sendInNormalMode"}
ColorSettings == {"fontColor", "backgroundColor", "cursorColor"}
Settings == BoolSettings \cup ColorSettings \cup {"fontSize", "fontFamily"}

(* defaultConfig *)
DefaultConfig ==
  [debugMode |-> FALSE, fontSize |-> 16, fontFamily |-> "Consolas",
   fontColor |-> "#e3e3e3", backgroundColor |-> "#222327", cursorColor |-> "#a52327",
   highlightActiveLine |-> FALSE, sendInInsertMode |-> FALSE,
   sendInNormalMode |-> TRUE]

(* The default settings with the send settings of c. *)
WithSend(c) ==
  [DefaultConfig EXCEPT !.sendInInsertMode = c.sendInInsertMode,
                        !.sendInNormalMode = c.sendInNormalMode]

(* Values a persisted setting may hold: for every setting its default,     *)
(* another value, and the falsy value of its type where there is one.      *)
SettingValues(k) ==
  IF k \in BoolSettings THEN BOOLEAN
  ELSE IF k = "fontSize" THEN {0, 14, 16}
  ELSE IF k = "fontFamily" THEN {"", "Consolas", "monospace"}
  ELSE {DefaultConfig[k], "#ffffff"}

(* Values the settings panel passes to updateConfig: the switches' value,  *)
(* parseInt(value) || 14, value || "Consolas", the colour inputs' value.   *)
PanelValues(k) ==
  IF k \in BoolSettings THEN BOOLEAN
  ELSE IF k = "fontSize" THEN {14, 16}
  ELSE IF k = "fontFamily" THEN {"Consolas", "monospace"}
  ELSE {DefaultConfig[k], "#ffffff"}

(* JavaScript's falsy values among the values of setting k. *)
Falsy(k, v) ==
  IF k \in BoolSettings THEN v = FALSE
  ELSE IF k = "fontSize" THEN v = 0
  ELSE v = ""

(* A property of the persisted object: undefined, or a value. *)
Undefined(k) == [has |-> FALSE, val |-> DefaultConfig[k]]
Value(k, v) == [has |-> TRUE, val |-> v]
NoList == [has |-> FALSE, list |-> <<>>]
List(l) == [has |-> TRUE, list |-> l]

(* BdApi.Data.load found nothing. *)
NothingSaved ==
  [exists |-> FALSE, top |-> [k \in Settings |-> Undefined(k)],
   nested |-> [k \in Settings |-> Undefined(k)], cmTop |-> NoList, cmNested |-> NoList]

(* A saveConfig that writes the settings in the legacy nested format. *)
saveNested(cfg, cm) ==
  [exists |-> TRUE, top |-> [k \in Settings |-> Undefined(k)],
   nested |-> [k \in Settings |-> Value(k, cfg[k])], cmTop |-> NoList,
   cmNested |-> List(cm)]

(* saveConfig: dataToSave, the nine settings and customMappings at top     *)
(* level; the values are booleans, numbers, strings and lists of them,     *)
(* which BdApi.Data stores and returns as they are.                        *)
saveConfig(cfg, cm) ==
  [exists |-> TRUE, top |-> [k \in Settings |-> Value(k, cfg[k])],
   nested |-> [k \in Settings |-> Undefined(k)], cmTop |-> List(cm), cmNested |-> NoList]

(* A loader that takes the next source for every falsy value (a || b). *)
FalsyOrMissing(k, o) == ~o.has \/ Falsy(k, o.val)

(* The left operand of ?? is null or undefined. *)
Nullish(k, o) == ~o.has

(* saved.settings?.k ?? saved.k ?? this.defaultConfig.k *)
LoadSetting(k, s, def) ==
  IF ~Nullish(k, s.nested[k]) THEN s.nested[k].val
  ELSE IF ~Nullish(k, s.top[k]) THEN s.top[k].val
  ELSE def[k]

(* saved.customMappings ?? saved.settings?.customMappings ?? [] *)
LoadMappings(s) ==
  IF s.cmTop.has THEN s.cmTop.list
  ELSE IF s.cmNested.has THEN s.cmNested.list
  ELSE <<>>

(* loadConfig before its saveConfig(): this.config, this.customMappings,   *)
(* and whether this.config is the defaultConfig object itself.             *)
loadConfig(s, def) ==
  IF s.exists
  THEN [config |-> [k \in Settings |-> LoadSetting(k, s, def)],
        customMappings |-> LoadMappings(s), aliased |-> FALSE]
  ELSE [config |-> def, customMappings |-> <<>>, aliased |-> TRUE]

(* The constructor, then start() with the configuration loadConfig found.  *)
InitWith(doms, configs, mappings) ==
  /\ InitFiles
  /\ host = "ok"
  /\ enabled = TRUE
  /\ variant \in Variants
  /\ dom \in doms
  /\ currentMode = "insert"
  /\ justEnteredInsertMode = FALSE
  /\ config \in {WithSend(c) : c \in configs}
  /\ customMappings \in mappings
  /\ defaultConfig = DefaultConfig
  /\ aliased = FALSE
  /\ saved = saveConfig(config, customMappings)
  /\ vimMap = {}
  /\ ed = [i \in Inputs |-> Detached]
  /\ focus = "none"
  /\ now = StartTime
  /\ hist = [i \in Inputs |-> NoHist]
  /\ ev = NoEvent
  /\ selected = "c1"
  /\ previousChannelId = "c1"
  /\ hostDraft = [c \in Channels |-> <<>>]
  /\ draftCache = [c \in Channels |-> Absent]
  /\ lastProcessedDraft = [c \in Channels |-> Absent]
  /\ stale = Detached
  /\ dev = NoHostEvent
  /\ phase = "started"
  /\ pending = FALSE
  /\ aceLoaded = TRUE
  /\ windowAce = "plugin"
  /\ observer = TRUE
  /\ styles = TRUE
  /\ subs = Subscribed(variant)

----------------------------------------------------------------------------
(* Attaching an editor and its timers *)

(* applyVimMappings: Vim.map for every single-key mapping; nothing without *)
(* an initialised Vim mode.                                                *)
applyVimMappings(e, cm, vm) ==
  IF e.vim = "none" THEN vm ELSE vm \cup SingleKeyMappings(cm)

(* focusListener of the build version: [e, p] afterwards. *)
FocusListener(i, e, p) ==
  IF IsEditMode(i) \/ p.mode = "insert" \/ e.vim = "none" THEN [e |-> e, p |-> p]
  ELSE [e |-> [e EXCEPT !.vim = "insert"], p |-> [mode |-> "insert", je |-> FALSE]]

(* The focus event of input i's textarea, when focus moves to it. *)
OnFocus(v, i, e, p) ==
  IF v = "build" /\ focus # i /\ e.timer \notin {"setup"}
  THEN FocusListener(i, e, p) ELSE [e |-> e, p |-> p]

Plugin == [mode |-> currentMode, je |-> justEnteredInsertMode]

(* attachAceEditor returns at once when !this.aceLoaded || !window.ace. *)
CanAttach(loaded, ace) == loaded /\ ace # "none"

(* setupEmojiDetection of the plugin version: a MutationObserver on the    *)
(* input and a 100 ms interval, kept in the editor's aceEditors entry.     *)
HasEmojiDetection(v) == v = "plugin"

(* createEditor and loadInitialContent: the aceEditors entry of input i.   *)
NewEditor(v, i, content, sel, dc, hd, cm) ==
  LET t == LoadInitialContent(v, i, content, sel, dc, hd)
  IN  [attached |-> TRUE, vim |-> "none", timer |-> "setup",
       clickTimer |-> FALSE, text |-> t, col |-> Len(t), anchor |-> 0,
       seqs |-> initializeKeySequences(cm),
       chans |-> CachedChannelId(v, i, sel),
       poll |-> HasEmojiDetection(v),
       resize |-> Absent]

(* The change event of loadInitialContent's setValue. *)
CacheAfterAttach(v, e, dc) == IF e.text # <<>> THEN OnChange(v, e, dc) ELSE dc

(* findAndAttachToInputs -> attachAceEditor: createEditor,                 *)
(* loadInitialContent, setupVimMode (keydown listener, 50 ms timer).       *)
Attach(i, content) ==
  /\ observer
  /\ CanAttach(aceLoaded, windowAce)
  /\ i \in dom
  /\ ~ed[i].attached
  /\ \E e \in {NewEditor(variant, i, content, selected, draftCache, hostDraft,
                         customMappings)} :
       /\ Len(e.text) <= MaxLen
       /\ ed' = [ed EXCEPT ![i] = e]
       /\ draftCache' = CacheAfterAttach(variant, e, draftCache)
  /\ ev' = NoEvent
  /\ dev' = NoHostEvent
  /\ UNCHANGED <<buildVars, host, enabled, cfgVars, lifeVars, variant, dom, currentMode, justEnteredInsertMode, config,
                 customMappings, vimMap, focus, now, hist,
                 selected, previousChannelId, hostDraft, lastProcessedDraft,
                 stale>>

(* The 50 ms timer of setupVimMode: the Vim keyboard handler is set (the   *)
(* engine starts in normal mode), the mode handlers are registered, the    *)
(* single-key mappings applied.                                            *)
SetupTimer(i) ==
  /\ ed[i].attached
  /\ ed[i].timer = "setup"
  /\ LET e == [ed[i] EXCEPT !.vim = "normal", !.timer = "init"]
     IN  /\ ed' = [ed EXCEPT ![i] = e]
         /\ vimMap' = applyVimMappings(e, customMappings, vimMap)
  /\ ev' = NoEvent
  /\ dev' = NoHostEvent
  /\ UNCHANGED <<buildVars, host, enabled, cfgVars, lifeVars, draftVars, variant, dom, currentMode, justEnteredInsertMode, config,
                 customMappings, focus, now, hist>>

(* The 100 ms timer of setupVimModeHandlers: "i" to the engine, focus.     *)
InitTimer(i) ==
  /\ ed[i].attached
  /\ ed[i].timer = "init"
  /\ LET k == PluginHandleKey(ed[i], Plugin, "i")
         f == OnFocus(variant, i, k.e, k.p)
     IN  /\ ed' = [ed EXCEPT ![i] =
                [f.e EXCEPT !.timer = IF variant = "build" THEN "focus" ELSE "done"]]
         /\ currentMode' = f.p.mode
         /\ justEnteredInsertMode' = f.p.je
  /\ focus' = i
  /\ ev' = NoEvent
  /\ dev' = NoHostEvent
  /\ UNCHANGED <<buildVars, host, enabled, cfgVars, lifeVars, draftVars, variant, dom, config, customMappings, vimMap, now, hist>>

(* The 200 ms timer of attachAceEditor (build): focus, and "i" to the      *)
(* engine for the main chat input.                                         *)
FocusTimer(i) ==
  /\ ed[i].attached
  /\ ed[i].timer = "focus"
  /\ LET f == OnFocus(variant, i, ed[i], Plugin)
         k == IF IsEditMode(i) THEN f ELSE PluginHandleKey(f.e, f.p, "i")
     IN  /\ ed' = [ed EXCEPT ![i] = [k.e EXCEPT !.timer = "done"]]
         /\ currentMode' = k.p.mode
         /\ justEnteredInsertMode' = k.p.je
  /\ focus' = i
  /\ ev' = NoEvent
  /\ dev' = NoHostEvent
  /\ UNCHANGED <<buildVars, host, enabled, cfgVars, lifeVars, draftVars, variant, dom, config, customMappings, vimMap, now, hist>>

(* A click on the editor: the textarea gets the focus (focus listener),    *)
(* then handleEditorClick starts its 10 ms timer; the click listeners      *)
(* exist once the 50 ms timer has run.                                     *)
Click(i) ==
  /\ ed[i].attached
  /\ LET f == OnFocus(variant, i, ed[i], Plugin)
         g == IF variant = "build" /\ ed[i].timer # "setup"
              THEN FocusListener(i, f.e, f.p) ELSE f
     IN  /\ ed' = [ed EXCEPT ![i] =
                [g.e EXCEPT !.clickTimer = (ed[i].timer # "setup") \/ @]]
         /\ currentMode' = g.p.mode
         /\ justEnteredInsertMode' = g.p.je
  /\ focus' = i
  /\ ev' = NoEvent
  /\ dev' = NoHostEvent
  /\ UNCHANGED <<buildVars, host, enabled, cfgVars, lifeVars, draftVars, variant, dom, config, customMappings, vimMap, now, hist>>

(* The 10 ms timer of handleEditorClick. *)
ClickTimer(i) ==
  /\ ed[i].attached
  /\ ed[i].clickTimer
  /\ LET e == [ed[i] EXCEPT !.clickTimer = FALSE]
         k == IF e.vim # "none" /\ currentMode # "insert"
              THEN PluginHandleKey(e, Plugin, "i") ELSE [e |-> e, p |-> Plugin]
     IN  /\ ed' = [ed EXCEPT ![i] = k.e]
         /\ currentMode' = k.p.mode
         /\ justEnteredInsertMode' = k.p.je
  /\ ev' = NoEvent
  /\ dev' = NoHostEvent
  /\ UNCHANGED <<buildVars, host, enabled, cfgVars, lifeVars, draftVars, variant, dom, config, customMappings, vimMap, focus, now, hist>>

(* The focus moves to the editor without a click (Tab, or the host). *)
FocusIn(i) ==
  /\ ed[i].attached
  /\ focus # i
  /\ LET f == OnFocus(variant, i, ed[i], Plugin)
     IN  /\ ed' = [ed EXCEPT ![i] = f.e]
         /\ currentMode' = f.p.mode
         /\ justEnteredInsertMode' = f.p.je
  /\ focus' = i
  /\ ev' = NoEvent
  /\ dev' = NoHostEvent
  /\ UNCHANGED <<buildVars, host, enabled, cfgVars, lifeVars, draftVars, variant, dom, config, customMappings, vimMap, now, hist>>

(* The 50 ms timer that clears justEnteredInsertMode. *)
JustEnteredTimeout ==
  /\ justEnteredInsertMode
  /\ justEnteredInsertMode' = FALSE
  /\ ev' = NoEvent
  /\ dev' = NoHostEvent
  /\ UNCHANGED <<buildVars, host, enabled, cfgVars, lifeVars, draftVars, variant, dom, currentMode, config, customMappings, vimMap,
                 ed, focus, now, hist>>

(* Time passes. *)
Tick ==
  /\ now < MaxNow
  /\ now' = now + HalfTimeout
  /\ ev' = NoEvent
  /\ dev' = NoHostEvent
  /\ UNCHANGED <<buildVars, host, enabled, cfgVars, lifeVars, draftVars, variant, dom, currentMode, justEnteredInsertMode, config,
                 customMappings, vimMap, ed, focus, hist>>

----------------------------------------------------------------------------
(* A keydown event on the focused editor *)

Mods == {"none", "shift", "ctrl", "alt", "meta"}

(* A key event: e.key, the modifier held, e.isComposing. *)
Key(k, m) == [key |-> k, mod |-> m, composing |-> FALSE]
Composing(k) == [key |-> k, mod |-> "none", composing |-> TRUE]

(* The key events the model delivers: character keys plain, with a         *)
(* non-shift modifier or during an IME composition; Enter plain, with      *)
(* Shift or Ctrl, or during a composition; Escape.                         *)
KeyEvents ==
  {Key(k, m) : k \in CharKeys, m \in {"none", "ctrl", "alt", "meta"}}
  \cup {Composing(k) : k \in CharKeys \cup {"Enter"}}
  \cup {Key("Enter", m) : m \in {"none", "shift", "ctrl"}}
  \cup {Key("Escape", "none")}

EngineName(key) ==
  IF key = "Escape" THEN "<Esc>" ELSE IF key = "Enter" THEN "<CR>" ELSE key

(* The newLine command setupContentSync / setupVimMode register:           *)
(* bindKey Shift-Enter, exec editor.insert("\n").                          *)
IsNewLineKey(k) == k.key = "Enter" /\ k.mod = "shift" /\ ~k.composing

NewLineCommand(e) ==
  [e EXCEPT !.text = InsertAt(e.text, e.col, <<NL>>), !.col = e.col + 1]

(* Ace's own keydown listener: a plain key goes to the Vim engine, the     *)
(* bound command runs; keys of a composition and keys with Ctrl, Alt or    *)
(* Meta change nothing here.                                               *)
EngineKeydown(e, k) ==
  IF IsNewLineKey(k) THEN [e |-> NewLineCommand(e), emit |-> "none"]
  ELSE IF k.composing \/ k.mod # "none" THEN [e |-> e, emit |-> "none"]
  ELSE EngineKey(e, EngineName(k.key))

(* The engine consumed the key (normal and visual mode take every plain    *)
(* key, insert mode takes Escape), so it has no default action.            *)
EngineConsumes(e, k) ==
  \/ IsNewLineKey(k)
  \/ k.composing
  \/ k.mod # "none"
  \/ e.vim \in {"normal", "visual"}
  \/ k.key = "Escape"

(* The default action of a key nobody consumed or suppressed: the          *)
(* character, or for Enter a new line, is typed at the cursor.             *)
DefaultAction(e, k) ==
  LET c == IF k.key = "Enter" THEN NL ELSE k.key
  IN  [e EXCEPT !.text = InsertAt(e.text, e.col, <<c>>), !.col = e.col + 1]

(* The run of single-character keydowns on an input, each less than one    *)
(* timeout after the one before (capped at the longest mapping).           *)
NextHist(h, k, t) ==
  IF ~IsChar(k.key) THEN h
  ELSE [h EXCEPT
          !.t = t,
          !.n = IF h.n > 0 /\ t - h.t < Timeout THEN Min(h.n + 1, LongestFrom) ELSE 1]

(* The reference matcher for key sequences.  For each sequence of an       *)
(* editor it keeps how many of the latest single-character keys pressed    *)
(* in insert mode, each less than a timeout after the one before and none  *)
(* consumed by a match, spell a prefix of the sequence, and the time of    *)
(* the latest such key.                                                    *)
RefOf(ref, n) == IF n \in DOMAIN ref THEN ref[n] ELSE NoRef

(* The longest end of cand that is a beginning of keys. *)
Spelled(cand, keys) ==
  LET fits == {m \in 0..Min(Len(cand), Len(keys)) :
                 SubSeq(cand, Len(cand) - m + 1, Len(cand)) = SubSeq(keys, 1, m)}
  IN  CHOOSE m \in fits : \A x \in fits : x <= m

RefAdvance(r, keys, key, t) ==
  LET n0 == IF t - r.time < Timeout THEN r.len ELSE 0
  IN  [len |-> Spelled(SubSeq(keys, 1, n0) \o <<key>>, keys), time |-> t]

(* The reference after a keydown, and the sequence it expects to fire:     *)
(* the first one in Map order that the latest keys spell.                  *)
Reference(seqs, ref, key, mode, t) ==
  IF ~(IsChar(key) /\ mode = "insert")
  THEN [ref |-> ref, expected |-> <<>>]
  ELSE LET rs == [n \in DOMAIN seqs |->
                    IF seqs[n].mode = "insert"
                    THEN RefAdvance(RefOf(ref, n), seqs[n].keys, key, t)
                    ELSE RefOf(ref, n)]
           done == {n \in DOMAIN seqs :
                      seqs[n].mode = "insert" /\ rs[n].len = Len(seqs[n].keys)}
       IN  [ref |-> rs,
            expected |-> IF done = {} THEN <<>>
                         ELSE seqs[CHOOSE n \in done : \A x \in done : n <= x].keys]

(* A match consumes the keys. *)
Consumed(ref) == [n \in DOMAIN ref |-> NoRef]

(* MessageActions of the host: found and working, not found, or found    *)
(* with a sendMessage that throws.                                         *)
HostStates == {"ok", "missing", "throws"}

(* sendMessage: MessageActions.sendMessage was called and returned.  The   *)
(* plugin version returns before the call without a channel id or without  *)
(* the module; in the build version the call on a missing module throws.   *)
Reached(v, sel, h) ==
  IF v = "plugin" THEN sel # NoChannel /\ h = "ok" ELSE h = "ok"

(* sendMessage of the build version clears the draft, the cache entry and *)
(* the last processed draft of the selected channel after sending; a call  *)
(* that throws skips this.                                                 *)
SendClears(v, sendPath, sel, h) ==
  v = "build" /\ sendPath = "send" /\ sel # NoChannel /\ h = "ok"

Keydown(i, k) ==
  /\ ed[i].attached
  /\ focus = i
  /\ \E r1 \in {EngineKeydown(ed[i], k)} :
     \E p1 \in {OnModeChange(Plugin, r1.emit)} :
     \E h \in {HandleKeydown(variant, i, r1.e, p1, config, k.key, k.mod, k.composing, now)} :
     \E e3 \in {IF h.prevented \/ EngineConsumes(ed[i], k) THEN h.e
                ELSE DefaultAction(h.e, k)} :
     \E hs \in {NextHist(hist[i], k, now)} :
     \E rf \in {Reference(ed[i].seqs, hist[i].ref, k.key, p1.mode, now)} :
       /\ Len(e3.text) <= MaxLen
       /\ ed' = [ed EXCEPT ![i] = e3]
       /\ currentMode' = h.p.mode
       /\ justEnteredInsertMode' = h.p.je
       /\ hist' = [hist EXCEPT ![i] =
                     [hs EXCEPT !.ref = IF h.matched # <<>> THEN Consumed(rf.ref)
                                        ELSE rf.ref]]
       /\ ev' = [kind |-> "keydown", input |-> i, key |-> k.key, mod |-> k.mod,
                 composing |-> k.composing, mode |-> p1.mode, je |-> p1.je,
                 prevented |-> h.prevented, inserted |-> h.inserted,
                 removed |-> h.removed, matched |-> h.matched, seqRan |-> h.seqRan,
                 engineKeys |-> h.engineKeys, sendPath |-> h.sendPath,
                 reached |-> h.sendPath = "send" /\ Reached(variant, selected, host),
                 expected |-> rf.expected,
                 streak |-> hs.n, blank |-> IsBlank(r1.e.text),
                 delta |-> Len(e3.text) - Len(ed[i].text)]
       /\ \E d1 \in {IF SendClears(variant, h.sendPath, selected, host)
                      THEN MapDelete(draftCache, selected) ELSE draftCache} :
            draftCache' = IF e3.text # ed[i].text THEN OnChange(variant, e3, d1)
                          ELSE d1
       /\ dev' = NoHostEvent
       /\ hostDraft' = IF SendClears(variant, h.sendPath, selected, host)
                       THEN ClearDraft(hostDraft, selected) ELSE hostDraft
       /\ lastProcessedDraft' = IF SendClears(variant, h.sendPath, selected, host)
                                THEN MapDelete(lastProcessedDraft, selected)
                                ELSE lastProcessedDraft
  /\ UNCHANGED <<buildVars, host, enabled, cfgVars, lifeVars, variant, dom, config, customMappings, vimMap, focus, now,
                 selected, previousChannelId, stale>>

----------------------------------------------------------------------------
(* Channel changes and draft changes (build version) *)

(* The loop over aceEditors for the main chat input: the first entry, in   *)
(* insertion order, whose input has a channelTextArea container and is not *)
(* in edit mode.  An editor is removed from aceEditors by stop() only, so  *)
(* the editor of an input that left the document comes first.              *)
FirstMainChat ==
  IF stale.attached THEN "stale"
  ELSE IF ed["main"].attached THEN "main"
  ELSE "none"

EditorOf(which) ==
  IF which = "stale" THEN stale ELSE IF which = "main" THEN ed["main"] ELSE Detached

(* saveCurrentChannelDraft(channelId): the write to the host's drafts and  *)
(* the cache afterwards.                                                   *)
SaveCurrentChannelDraft(c, dc, fallback) ==
  LET cached == MapText(dc, c)
      content == IF cached = <<>> THEN fallback ELSE cached
  IN  IF IsBlank(content)
      THEN [write |-> [op |-> "clearDraft", chan |-> c, text |-> <<>>],
            dc |-> MapDelete(dc, c)]
      ELSE [write |-> [op |-> "saveDraft", chan |-> c, text |-> content],
            dc |-> dc]

(* A listener that saves on every CHANNEL_SELECT with a previous channel. *)
AnySelect(prev, new) == prev # NoChannel

(* previousChannelId && previousChannelId !== newChannelId *)
ChannelChanged(prev, new) == prev # NoChannel /\ prev # new

ApplyWrite(hd, w) ==
  IF w.op = "clearDraft" THEN ClearDraft(hd, w.chan) ELSE SaveDraft(hd, w.chan, w.text)

(* The host selects channel c (or none) and dispatches CHANNEL_SELECT;     *)
(* handleChannelChange runs in the build version.                          *)
ChannelSelect(c) ==
  /\ selected' = c
  /\ IF subs.channel
     THEN /\ previousChannelId' = c
          /\ IF ChannelChanged(previousChannelId, c)
             THEN \E r \in {SaveCurrentChannelDraft(previousChannelId, draftCache,
                                                    EditorOf(FirstMainChat).text)} :
                    /\ hostDraft' = ApplyWrite(hostDraft, r.write)
                    /\ draftCache' = r.dc
                    /\ dev' = [NoHostEvent EXCEPT
                                 !.kind = "select", !.from = previousChannelId,
                                 !.chan = c, !.writes = {r.write}]
             ELSE /\ dev' = [NoHostEvent EXCEPT
                               !.kind = "select", !.from = previousChannelId, !.chan = c]
                  /\ UNCHANGED <<hostDraft, draftCache>>
     ELSE /\ dev' = NoHostEvent
          /\ UNCHANGED <<previousChannelId, hostDraft, draftCache>>
  /\ ev' = NoEvent
  /\ UNCHANGED <<buildVars, host, enabled, cfgVars, lifeVars, variant, dom, currentMode, justEnteredInsertMode, config,
                 customMappings, vimMap, ed, focus, now, hist,
                 lastProcessedDraft, stale>>

(* The host replaces the main chat input by a new element (as it does when *)
(* the chat area is rendered again).  The old editor stays in aceEditors;  *)
(* `found` says whether the old input was removed together with its        *)
(* channelTextArea container, so that closest() still finds the container. *)
(* Of several such editors only the oldest is ever reached by the loops,   *)
(* which read and change its text only.                                    *)
Remount(found) ==
  /\ ed["main"].attached
  /\ stale' = IF found /\ ~stale.attached
              THEN [Detached EXCEPT !.attached = TRUE, !.text = ed["main"].text,
                                    !.col = ed["main"].col, !.chans = ed["main"].chans,
                                    !.poll = ed["main"].poll]
              ELSE stale
  /\ ed' = [ed EXCEPT !["main"] = Detached]
  /\ focus' = IF focus = "main" THEN "none" ELSE focus
  /\ hist' = [hist EXCEPT !["main"] = NoHist]
  /\ ev' = NoEvent
  /\ dev' = NoHostEvent
  /\ UNCHANGED <<buildVars, host, enabled, cfgVars, lifeVars, variant, dom, currentMode, justEnteredInsertMode, config,
                 customMappings, vimMap, now,
                 selected, previousChannelId, hostDraft, draftCache,
                 lastProcessedDraft>>

(* A handler that does not remember the draft it processed last. *)
NeverProcessed(lastProcessed, draftContent) == FALSE

(* lastProcessed === draftContent *)
AlreadyProcessed(lastProcessed, draftContent) == lastProcessed = draftContent

(* The part of the draft handleDraftChange inserts. *)
NewContent(lastProcessed, draftContent) ==
  IF lastProcessed # <<>> /\ IsPrefix(lastProcessed, draftContent)
  THEN Trim(SubstringFrom(draftContent, Len(lastProcessed)))
  ELSE Trim(draftContent)

(* handleDraftChange({channelId: c}) with the stores as given: the maps    *)
(* and the editor it chose afterwards, the text inserted, the draft write. *)
HandleDraftChange(c, sel, hd, dc, lp, which, e) ==
  LET none == [hd |-> hd, dc |-> dc, lp |-> lp, e |-> e, inserted |-> <<>>,
               writes |-> {}, known |-> FALSE]
      draftContent == IF sel \in Channels THEN hd[sel] ELSE <<>>
      lastProcessed == MapText(lp, sel)
      clear == [op |-> "clearDraft", chan |-> sel, text |-> <<>>]
      hasCachedDraft == ~IsBlank(MapText(dc, sel))
      newContent == NewContent(lastProcessed, draftContent)
  IN  IF sel = NoChannel \/ c # sel THEN none
      ELSE IF IsBlank(draftContent) THEN none
      ELSE IF AlreadyProcessed(lastProcessed, draftContent)
           THEN [none EXCEPT !.known = TRUE]
      ELSE IF which = "none" THEN none
      ELSE IF Includes(e.text, Trim(draftContent))
           THEN [none EXCEPT !.hd = ClearDraft(hd, sel), !.writes = {clear},
                             !.lp = MapSet(lp, sel, draftContent)]
      ELSE IF IsBlank(e.text) /\ hasCachedDraft THEN none
      ELSE IF newContent = <<>>
           THEN [none EXCEPT !.lp = MapSet(lp, sel, draftContent)]
      ELSE LET e1 == [e EXCEPT !.text = InsertAt(e.text, e.col, newContent),
                               !.col = e.col + Len(newContent)]
           IN  [hd |-> ClearDraft(hd, sel),
                dc |-> MapSet(OnChange("build", e1, dc), sel, e1.text),
                lp |-> MapSet(lp, sel, draftContent),
                e |-> e1, inserted |-> newContent, writes |-> {clear},
                known |-> FALSE]

(* Drafts the host reports: the emoji picker writes into the host's own    *)
(* input, whose draft the host then stores; an empty draft is reported     *)
(* when the draft was cleared.                                             *)
Drafts == {<<>>, <<"k">>, <<"k", "k">>}

(* The host stores draft d for channel c and dispatches DRAFT_CHANGE;      *)
(* handleDraftChange runs in the build version.                            *)
DraftChange(c, d) ==
  /\ \E hd \in {[hostDraft EXCEPT ![c] = d]} :
     \E which \in {FirstMainChat} :
     \E r \in {IF subs.draft
               THEN HandleDraftChange(c, selected, hd, draftCache,
                                      lastProcessedDraft, which, EditorOf(which))
               ELSE [hd |-> hd, dc |-> draftCache, lp |-> lastProcessedDraft,
                     e |-> EditorOf(which), inserted |-> <<>>, writes |-> {},
                     known |-> FALSE]} :
       /\ Len(r.e.text) <= MaxLen
       /\ hostDraft' = r.hd
       /\ draftCache' = r.dc
       /\ lastProcessedDraft' = r.lp
       /\ stale' = IF which = "stale" THEN r.e ELSE stale
       /\ ed' = IF which = "main" THEN [ed EXCEPT !["main"] = r.e] ELSE ed
       /\ dev' = [kind |-> "draft", chan |-> c, from |-> selected, content |-> d,
                  writes |-> r.writes, inserted |-> r.inserted,
                  target |-> IF r.inserted # <<>> THEN which ELSE "none",
                  known |-> r.known]
  /\ ev' = NoEvent
  /\ UNCHANGED <<buildVars, host, enabled, cfgVars, lifeVars, variant, dom, currentMode, justEnteredInsertMode, config,
                 customMappings, vimMap, focus, now, hist,
                 selected, previousChannelId>>

----------------------------------------------------------------------------
(* start() and stop() *)

(* What loading the two scripts can come to: both load and define          *)
(* window.ace; ace.js fails to load; ace.js loads without defining         *)
(* window.ace; keybinding-vim.js fails to load.                            *)
LoadOutcomes == {"loaded", "aceFails", "noAce", "vimFails"}

(* loadAceEditor once the scripts are through: this.aceLoaded, window.ace. *)
LoadAceEditor(outcome, loaded, ace) ==
  IF ace # "none" THEN [aceLoaded |-> TRUE, windowAce |-> ace]
  ELSE IF outcome = "aceFails" THEN [aceLoaded |-> FALSE, windowAce |-> "none"]
  ELSE IF outcome = "noAce" THEN [aceLoaded |-> loaded, windowAce |-> "none"]
  ELSE IF outcome = "vimFails" THEN [aceLoaded |-> FALSE, windowAce |-> "plugin"]
  ELSE [aceLoaded |-> TRUE, windowAce |-> "plugin"]

(* startObserving: findAndAttachToInputs attaches to every input in the    *)
(* document at once (the inputs hold no text of their own here).           *)
AttachAll(v, is, sel, dc, hd, cm, loaded, ace) ==
  [i \in Inputs |->
     IF i \in is /\ CanAttach(loaded, ace)
     THEN NewEditor(v, i, <<>>, sel, dc, hd, cm) ELSE Detached]

(* start() after `await this.loadAceEditor()`: the error toast and return, *)
(* or the listeners, the styles and the observer.                          *)
FinishStart(l, cm) ==
  /\ aceLoaded' = l.aceLoaded
  /\ windowAce' = l.windowAce
  /\ IF ~l.aceLoaded
     THEN /\ phase' = "failed"
          /\ UNCHANGED <<observer, styles, subs, previousChannelId, ed, draftCache>>
     ELSE /\ phase' = "started"
          /\ observer' = TRUE
          /\ styles' = TRUE
          /\ subs' = Subscribed(variant)
          /\ previousChannelId' = IF variant = "build" THEN selected
                                  ELSE previousChannelId
          /\ \E es \in {AttachAll(variant, dom, selected, draftCache, hostDraft,
                                  cm, l.aceLoaded, l.windowAce)} :
               /\ ed' = [i \in Inputs |-> IF ed[i].attached THEN ed[i] ELSE es[i]]
               /\ draftCache' = IF ~ed["main"].attached /\ es["main"].attached
                                THEN CacheAfterAttach(variant, es["main"], draftCache)
                                ELSE draftCache
  /\ ev' = NoEvent
  /\ dev' = NoHostEvent
  /\ UNCHANGED <<variant, dom, currentMode, justEnteredInsertMode,
                 vimMap, focus, now, hist, selected, hostDraft,
                 lastProcessedDraft, stale, defaultConfig>>

(* The host enables the plugin: start() up to its await, loadConfig        *)
(* first; with window.ace defined already loadAceEditor loads nothing and  *)
(* start() goes on.                                                        *)
Start ==
  /\ phase \in {"new", "stopped"}
  /\ ~pending
  /\ enabled' = TRUE
  /\ UNCHANGED <<buildVars, host>>
  /\ \E l \in {loadConfig(saved, defaultConfig)} :
       /\ config' = l.config
       /\ customMappings' = l.customMappings
       /\ aliased' = l.aliased
       /\ saved' = saveConfig(l.config, l.customMappings)
       /\ IF windowAce # "none"
          THEN /\ FinishStart(LoadAceEditor("loaded", aceLoaded, windowAce),
                              l.customMappings)
               /\ UNCHANGED pending
          ELSE /\ phase' = "starting"
               /\ pending' = TRUE
               /\ ev' = NoEvent
               /\ dev' = NoHostEvent
               /\ UNCHANGED <<aceLoaded, windowAce, observer, styles, subs, draftVars,
                              variant, dom, currentMode, justEnteredInsertMode,
                              vimMap, ed, focus, now, hist, defaultConfig>>

(* The scripts have loaded or failed: start() resumes. *)
ScriptsDone(outcome) ==
  /\ pending
  /\ pending' = FALSE
  /\ FinishStart(LoadAceEditor(outcome, aceLoaded, windowAce), customMappings)
  /\ UNCHANGED <<buildVars, host, enabled, config, customMappings, aliased, saved>>

(* A stop() that keeps the draft maps. *)
StopMaps(v, m) == m

(* stop(): draftCache.clear(), lastProcessedDraft.clear() (build). *)
ClearedMaps(v, m) == IF v = "build" THEN [c \in Channels |-> Absent] ELSE m

(* stop(): `if (window.ace) delete window.ace`. *)
AceAfterStop(ace) == "none"

(* destroyAceEditor: the entry leaves aceEditors.  The 50 ms timer of      *)
(* setupVimMode is not cleared: where it has not fired yet it stays        *)
(* pending ("late").                                                       *)
Destroyed(e) ==
  IF e.attached /\ e.timer = "setup" THEN [Detached EXCEPT !.timer = "late"]
  ELSE Detached

(* The host disables the plugin: stop(). *)
Stop ==
  /\ phase \in {"starting", "started", "failed"}
  /\ phase' = "stopped"
  /\ subs' = NoSubscription
  /\ draftCache' = ClearedMaps(variant, draftCache)
  /\ lastProcessedDraft' = ClearedMaps(variant, lastProcessedDraft)
  /\ enabled' = FALSE
  /\ ed' = [i \in Inputs |-> Destroyed(ed[i])]
  /\ stale' = Detached
  /\ focus' = "none"
  /\ hist' = [i \in Inputs |-> NoHist]
  /\ observer' = FALSE
  /\ styles' = FALSE
  /\ windowAce' = AceAfterStop(windowAce)
  /\ vimMap' = {}
  /\ ev' = NoEvent
  /\ dev' = NoHostEvent
  /\ UNCHANGED <<buildVars, host, cfgVars, pending, aceLoaded, variant, dom, currentMode,
                 justEnteredInsertMode, config, customMappings, now, selected,
                 previousChannelId, hostDraft>>

(* The 50 ms timer of setupVimMode firing after stop() destroyed its       *)
(* editor.  It calls setKeyboardHandler on the destroyed editor, which     *)
(* the library may answer with an exception; otherwise the build version   *)
(* goes on to aceEditors.set(originalInput, {...prev, listeners, vimMode}) *)
(* and so leaves an entry without an editor ("left").                      *)
LateSetupTimer(i, throws) ==
  /\ ~ed[i].attached
  /\ ed[i].timer = "late"
  /\ ed' = [ed EXCEPT ![i].timer = IF variant = "build" /\ ~throws THEN "left"
                                   ELSE "done"]
  /\ ev' = NoEvent
  /\ dev' = NoHostEvent
  /\ UNCHANGED <<buildVars, host, enabled, cfgVars, lifeVars, draftVars, variant, dom,
                 currentMode, justEnteredInsertMode, config, customMappings,
                 vimMap, focus, now, hist>>

(* checkDraftStore of the plugin version, run by the editor's 100 ms       *)
(* interval and its input observer: the selected channel's draft is        *)
(* inserted at the cursor and cleared.                                     *)
CheckDraftStore(i) ==
  /\ ed[i].attached
  /\ ed[i].poll
  /\ selected \in Channels
  /\ hostDraft[selected] # <<>>
  /\ Len(ed[i].text) + Len(hostDraft[selected]) <= MaxLen
  /\ ed' = [ed EXCEPT ![i].text = InsertAt(@, ed[i].col, hostDraft[selected]),
                      ![i].col = @ + Len(hostDraft[selected])]
  /\ hostDraft' = ClearDraft(hostDraft, selected)
  /\ ev' = NoEvent
  /\ dev' = [NoHostEvent EXCEPT !.kind = "poll", !.chan = selected,
                                !.content = hostDraft[selected],
                                !.inserted = hostDraft[selected], !.target = i]
  /\ UNCHANGED <<buildVars, host, enabled, cfgVars, lifeVars, variant, dom, currentMode, justEnteredInsertMode, config,
                 customMappings, vimMap, focus, now, hist, selected,
                 previousChannelId, draftCache, lastProcessedDraft, stale>>

----------------------------------------------------------------------------
(* The settings panel *)

(* "Add Vim Mapping": the mapping is appended and saved, then              *)
(* applyVimMappings runs for every editor.                                 *)
RECURSIVE ApplyToAll(_, _, _)
ApplyToAll(is, cm, vm) ==
  IF is = {} THEN vm
  ELSE LET i == CHOOSE x \in is : TRUE
       IN  ApplyToAll(is \ {i}, cm, applyVimMappings(ed[i], cm, vm))

Attached == {i \in Inputs : ed[i].attached}

(* The settings panel exists once start() has loaded the configuration    *)
(* and until stop(); its React state is the configuration it last set.     *)
PanelOpen == phase \in {"starting", "started", "failed"}

AddMapping(m) ==
  /\ PanelOpen
  /\ Len(customMappings) < MaxMappings
  /\ customMappings' = Append(customMappings, m)
  /\ saved' = saveConfig(config, customMappings')
  /\ vimMap' = ApplyToAll(Attached, customMappings', vimMap)
  /\ ev' = NoEvent
  /\ dev' = NoHostEvent
  /\ UNCHANGED <<buildVars, host, enabled, defaultConfig, aliased, lifeVars, draftVars, variant, dom, currentMode,
                 justEnteredInsertMode, config, ed, focus, now, hist>>

(* customMappings.filter((_, i) => i !== index) *)
RemoveIndex(cm, idx) ==
  [k \in 1..(Len(cm) - 1) |-> IF k < idx THEN cm[k] ELSE cm[k + 1]]

(* "Delete": the mapping is filtered out and saved, then applyVimMappings  *)
(* runs for every editor.                                                  *)
DeleteMapping(idx) ==
  /\ PanelOpen
  /\ idx \in DOMAIN customMappings
  /\ customMappings' = RemoveIndex(customMappings, idx)
  /\ saved' = saveConfig(config, customMappings')
  /\ vimMap' = ApplyToAll(Attached, customMappings', vimMap)
  /\ ev' = NoEvent
  /\ dev' = NoHostEvent
  /\ UNCHANGED <<buildVars, host, enabled, defaultConfig, aliased, lifeVars, draftVars, variant, dom, currentMode,
                 justEnteredInsertMode, config, ed, focus, now, hist>>

(* An updateConfig that writes the setting into the object this.config     *)
(* refers to.                                                              *)
AssignInPlace(cfg, def, al, key, value) ==
  [config |-> [cfg EXCEPT ![key] = value],
   defaultConfig |-> IF al THEN [def EXCEPT ![key] = value] ELSE def,
   aliased |-> al]

(* updateConfig: newConfig, a new object with the nine settings, becomes   *)
(* this.config.                                                            *)
AssignConfig(cfg, def, al, key, value) ==
  [config |-> [k \in Settings |-> IF k = key THEN value ELSE cfg[k]],
   defaultConfig |-> def,
   aliased |-> FALSE]

(* The settings for which updateConfig restyles the editors. *)
AppearanceSettings == ColorSettings \cup {"fontSize", "fontFamily", "highlightActiveLine"}

(* applyEditorSettings on the editor of input i, as updateConfig and       *)
(* "Reset to Defaults" call it: one more "change" listener is registered.  *)
AddListener(v, i, e, sel) ==
  IF e.attached THEN [e EXCEPT !.chans = e.chans \cup CachedChannelId(v, i, sel)] ELSE e

(* updateConfig for fontSize, per editor: setValue(content + " ", -1) and  *)
(* a 10 ms timer that will set the content back.                           *)
StartResize(e) ==
  IF e.attached
  THEN [e EXCEPT !.text = e.text \o <<" ">>, !.col = 0,
                 !.resize = Entry(e.text)]
  ELSE e

(* The change events of these setValue calls, editor by editor. *)
RECURSIVE CacheAfterResize(_, _, _)
CacheAfterResize(v, es, dc) ==
  IF es = <<>> THEN dc
  ELSE CacheAfterResize(v, Tail(es),
                        IF Head(es).attached THEN OnChange(v, Head(es), dc) ELSE dc)

(* updateConfig(key, value) of the settings panel.  An editor whose input  *)
(* the host has replaced is restyled too; its 10 ms timer sets its content *)
(* back, and the action shows it after that timer.                         *)
UpdateConfig(key, value) ==
  /\ PanelOpen
  /\ \E r \in {AssignConfig(config, defaultConfig, aliased, key, value)} :
       /\ config' = r.config
       /\ defaultConfig' = r.defaultConfig
       /\ aliased' = r.aliased
       /\ saved' = saveConfig(r.config, customMappings)
  /\ config' # config
  /\ styles' = IF key \in AppearanceSettings THEN TRUE ELSE styles
  /\ IF key = "fontSize"
     THEN /\ ed' = [i \in Inputs |->
                     StartResize(AddListener(variant, i, ed[i], selected))]
          /\ stale' = AddListener(variant, "main", stale, selected)
          /\ draftCache' = CacheAfterResize(variant,
                                            <<stale', ed'["main"], ed'["edit"]>>,
                                            draftCache)
     ELSE IF key \in AppearanceSettings
     THEN /\ ed' = [i \in Inputs |-> AddListener(variant, i, ed[i], selected)]
          /\ stale' = AddListener(variant, "main", stale, selected)
          /\ UNCHANGED draftCache
     ELSE UNCHANGED <<ed, stale, draftCache>>
  /\ ev' = NoEvent
  /\ dev' = NoHostEvent
  /\ UNCHANGED <<buildVars, host, enabled, phase, pending, aceLoaded, windowAce, observer, subs,
                 variant, dom, currentMode, justEnteredInsertMode,
                 customMappings, vimMap, focus, now, hist, selected,
                 previousChannelId, hostDraft, lastProcessedDraft>>

(* The 10 ms timer of updateConfig: setValue(content, -1) with the content *)
(* read before, then navigateFileEnd().                                    *)
ResizeTimer(i) ==
  /\ ed[i].attached
  /\ ed[i].resize.has
  /\ \E e \in {[ed[i] EXCEPT !.text = ed[i].resize.text,
                             !.col = Len(ed[i].resize.text),
                             !.resize = Absent]} :
       /\ ed' = [ed EXCEPT ![i] = e]
       /\ draftCache' = IF e.text # ed[i].text THEN OnChange(variant, e, draftCache)
                        ELSE draftCache
  /\ ev' = NoEvent
  /\ dev' = NoHostEvent
  /\ UNCHANGED <<buildVars, host, enabled, cfgVars, lifeVars, variant, dom, currentMode, justEnteredInsertMode,
                 config, customMappings, vimMap, focus, now, hist, selected,
                 previousChannelId, hostDraft, lastProcessedDraft, stale>>

(* "Reset to Defaults": this.config = this.defaultConfig, saveConfig,      *)
(* addStyles, applyEditorSettings for every editor.                        *)
ResetToDefaults ==
  /\ PanelOpen
  /\ config' = defaultConfig
  /\ aliased' = TRUE
  /\ saved' = saveConfig(defaultConfig, customMappings)
  /\ styles' = TRUE
  /\ ev' = NoEvent
  /\ dev' = NoHostEvent
  /\ ed' = [i \in Inputs |-> AddListener(variant, i, ed[i], selected)]
  /\ stale' = AddListener(variant, "main", stale, selected)
  /\ UNCHANGED <<buildVars, host, enabled, defaultConfig, phase, pending, aceLoaded, windowAce, observer, subs,
                 selected, previousChannelId, hostDraft, draftCache,
                 lastProcessedDraft, variant, dom, currentMode, justEnteredInsertMode,
                 customMappings, vimMap, focus, now, hist>>

----------------------------------------------------------------------------
(* Specifications *)

MappingLists ==
  {<<>>} \cup {<<m>> : m \in MappingPool}
         \cup {<<m, n>> : m \in MappingPool, n \in MappingPool}

EditorSteps ==
  \/ \E i \in Inputs, c \in InitialTexts : Attach(i, c)
  \/ \E i \in Inputs : SetupTimer(i)
  \/ \E i \in Inputs : InitTimer(i)
  \/ \E i \in Inputs : FocusTimer(i)
  \/ \E i \in Inputs : Click(i)
  \/ \E i \in Inputs : ClickTimer(i)
  \/ \E i \in Inputs : FocusIn(i)
  \/ JustEnteredTimeout

(* The whole plugin. *)
Init == InitWith(SUBSET Inputs, Configs, MappingLists)

Next ==
  \/ EditorSteps
  \/ Tick
  \/ \E i \in Inputs, k \in KeyEvents : Keydown(i, k)
  \/ \E m \in MappingPool : AddMapping(m)
  \/ \E idx \in 1..MaxMappings : DeleteMapping(idx)
  \/ \E key \in Settings : \E v \in PanelValues(key) : UpdateConfig(key, v)
  \/ \E i \in Inputs : ResizeTimer(i)
  \/ ResetToDefaults
  \/ \E c \in Channels \cup {NoChannel} : ChannelSelect(c)
  \/ \E found \in BOOLEAN : Remount(found)
  \/ \E c \in Channels, d \in Drafts : DraftChange(c, d)
  \/ \E i \in Inputs : CheckDraftStore(i)
  \/ Start
  \/ \E o \in LoadOutcomes : ScriptsDone(o)
  \/ Stop

Spec == Init /\ [][Next]_vars

(* The product of all inputs is beyond exhaustive search; each of the      *)
(* following specifications fixes the inputs its claims do not depend on.  *)

(* Typing in the main chat input with the sequence mappings "jk" -> <Esc>  *)
(* and "kk" -> gj loaded at start: character keys, modifiers, a            *)
(* composition, Escape, and the clock.                                     *)
TypingEvents ==
  {Key(k, "none") : k \in {"j", "k", "i"}}
  \cup {Key("j", m) : m \in {"ctrl", "alt", "meta"}}
  \cup {Composing("j"), Key("Escape", "none")}

InitKeys == InitWith({{"main"}}, {DefaultConfig}, {<<MapJK, MapKK>>})

NextKeys ==
  \/ \E i \in Inputs, c \in InitialTexts : Attach(i, c)
  \/ \E i \in Inputs : SetupTimer(i)
  \/ \E i \in Inputs : InitTimer(i)
  \/ \E i \in Inputs : FocusTimer(i)
  \/ JustEnteredTimeout
  \/ Tick
  \/ \E i \in Inputs, k \in TypingEvents : Keydown(i, k)

SpecKeys == InitKeys /\ [][NextKeys]_vars

(* Enter in the main chat input, or in the input of a message being        *)
(* edited, under every setting of the two send switches, in insert,        *)
(* normal and visual mode.                                                 *)
EnterEvents ==
  {Key("Enter", m) : m \in {"none", "shift", "ctrl"}}
  \cup {Composing("Enter"), Key("Escape", "none"), Key("j", "none"), Key("v", "none")}

InitEnter == InitWith({{"main"}, {"edit"}}, Configs, {<<MapJK>>})

NextEnter ==
  \/ \E i \in Inputs, c \in InitialTexts : Attach(i, c)
  \/ \E i \in Inputs : SetupTimer(i)
  \/ \E i \in Inputs : InitTimer(i)
  \/ \E i \in Inputs : FocusTimer(i)
  \/ JustEnteredTimeout
  \/ \E i \in Inputs, k \in EnterEvents : Keydown(i, k)

SpecEnter == InitEnter /\ [][NextEnter]_vars

(* The settings panel's mapping list with both inputs in the document. *)
InitMap == InitWith({Inputs}, {DefaultConfig}, {<<>>})

NextMap ==
  \/ \E i \in Inputs : Attach(i, <<>>)
  \/ \E i \in Inputs : SetupTimer(i)
  \/ \E i \in Inputs : InitTimer(i)
  \/ \E i \in Inputs : FocusTimer(i)
  \/ \E m \in MappingPool : AddMapping(m)
  \/ \E idx \in 1..MaxMappings : DeleteMapping(idx)

SpecMap == InitMap /\ [][NextMap]_vars

(* Two editors at once: the main chat input and a message being edited,    *)
(* with focus changes, clicks and the Escape key.                          *)
ModeEvents == {Key("Escape", "none"), Composing("Escape")}

InitModes == InitWith({Inputs}, {DefaultConfig}, {<<>>})

NextModes ==
  \/ \E i \in Inputs : Attach(i, <<>>)
  \/ \E i \in Inputs : SetupTimer(i)
  \/ \E i \in Inputs : InitTimer(i)
  \/ \E i \in Inputs : FocusTimer(i)
  \/ \E i \in Inputs : Click(i)
  \/ \E i \in Inputs : ClickTimer(i)
  \/ \E i \in Inputs : FocusIn(i)
  \/ JustEnteredTimeout
  \/ \E i \in Inputs, k \in ModeEvents : Keydown(i, k)

SpecModes == InitModes /\ [][NextModes]_vars

(* Channel changes in the build version: one main chat input, two         *)
(* channels or none selected, typing, the host replacing the input.        *)
ChannelKeys == {Key("k", "none")}

InitChannel ==
  /\ InitWith({{"main"}}, {[sendInInsertMode |-> TRUE, sendInNormalMode |-> TRUE]},
              {<<>>})
  /\ variant = "build"

NextChannel ==
  \/ \E i \in Inputs : Attach(i, <<>>)
  \/ \E i \in Inputs : SetupTimer(i)
  \/ \E i \in Inputs : InitTimer(i)
  \/ \E i \in Inputs : FocusTimer(i)
  \/ \E i \in Inputs, k \in ChannelKeys : Keydown(i, k)
  \/ \E c \in Channels \cup {NoChannel} : ChannelSelect(c)
  \/ \E found \in BOOLEAN : Remount(found)

SpecChannel == InitChannel /\ [][NextChannel]_vars

(* Draft changes in the build version: the emoji picker, typing, sending   *)
(* (Enter sends in insert mode here), channel changes with the input       *)
(* replaced inside its container.                                          *)
DraftKeys == {Key("k", "none"), Key("Enter", "none")}

InitDraft == InitChannel

NextDraft ==
  \/ \E i \in Inputs : Attach(i, <<>>)
  \/ \E i \in Inputs : SetupTimer(i)
  \/ \E i \in Inputs : InitTimer(i)
  \/ \E i \in Inputs : FocusTimer(i)
  \/ \E i \in Inputs, k \in DraftKeys : Keydown(i, k)
  \/ \E c \in Channels : ChannelSelect(c)
  \/ Remount(FALSE)
  \/ \E c \in Channels, d \in Drafts : DraftChange(c, d)

SpecDraft == InitDraft /\ [][NextDraft]_vars

(* Enabling and disabling the plugin: both versions, window.ace defined   *)
(* by the host page or not, one main chat input.                           *)
LifeKeys == {Key("k", "none")}

(* The state after construction; this.config, null until loadConfig sets   *)
(* it, is not read before.                                                 *)
InitNew(inputs, data) ==
  /\ InitFiles
  /\ host = "ok"
  /\ enabled = FALSE
  /\ variant \in Variants
  /\ dom = inputs
  /\ currentMode = "insert"
  /\ justEnteredInsertMode = FALSE
  /\ config = DefaultConfig
  /\ customMappings = <<>>
  /\ defaultConfig = DefaultConfig
  /\ aliased = FALSE
  /\ saved \in data
  /\ vimMap = {}
  /\ ed = [i \in Inputs |-> Detached]
  /\ focus = "none"
  /\ now = StartTime
  /\ hist = [i \in Inputs |-> NoHist]
  /\ ev = NoEvent
  /\ selected = "c1"
  /\ previousChannelId = NoChannel
  /\ hostDraft = [c \in Channels |-> <<>>]
  /\ draftCache = [c \in Channels |-> Absent]
  /\ lastProcessedDraft = [c \in Channels |-> Absent]
  /\ stale = Detached
  /\ dev = NoHostEvent
  /\ phase = "new"
  /\ pending = FALSE
  /\ aceLoaded = FALSE
  /\ windowAce \in {"none", "host"}
  /\ observer = FALSE
  /\ styles = FALSE
  /\ subs = NoSubscription

InitLife == InitNew({"main"}, {NothingSaved})

NextLife ==
  \/ Start
  \/ \E o \in LoadOutcomes : ScriptsDone(o)
  \/ Stop
  \/ \E i \in Inputs : Attach(i, <<>>)
  \/ \E i \in Inputs : SetupTimer(i)
  \/ \E i \in Inputs : InitTimer(i)
  \/ \E i \in Inputs, k \in LifeKeys : Keydown(i, k)
  \/ \E found \in BOOLEAN : Remount(found)
  \/ \E c \in Channels, d \in Drafts : DraftChange(c, d)
  \/ \E i \in Inputs : CheckDraftStore(i)
  \/ \E i \in Inputs, throws \in BOOLEAN : LateSetupTimer(i, throws)

SpecLife == InitLife /\ [][NextLife]_vars

(* The settings: persisted data in the flat or the legacy nested format   *)
(* or none, start() loading it, the settings panel; no input in the        *)
(* document.  The persisted data holds values for one setting at a time,   *)
(* at top level, nested, or both, and mapping lists likewise.              *)
SavedLists == {NoList, List(<<>>), List(<<MapJK>>), List(<<MapJ, MapJK>>)}

SavedOptions(k) == {Undefined(k)} \cup {Value(k, v) : v \in SettingValues(k)}

SavedData ==
  {NothingSaved} \cup
  UNION {{[exists |-> TRUE,
           top |-> [NothingSaved.top EXCEPT ![k] = t],
           nested |-> [NothingSaved.nested EXCEPT ![k] = n],
           cmTop |-> lt, cmNested |-> ln] :
            t \in SavedOptions(k), n \in SavedOptions(k),
            lt \in SavedLists, ln \in SavedLists} : k \in Settings}

InitConfig == InitNew({}, SavedData)

NextConfig ==
  \/ Start
  \/ \E o \in LoadOutcomes : ScriptsDone(o)
  \/ Stop
  \/ \E key \in Settings : \E v \in PanelValues(key) : UpdateConfig(key, v)
  \/ ResetToDefaults

SpecConfig == InitConfig /\ [][NextConfig]_vars

(* Typing with a three-key sequence that starts with a repeated key, the  *)
(* shape of "aab"; Ctrl chords are single-character keys that are not      *)
(* inserted.                                                               *)
MapKKJ == [from |-> <<"k", "k", "j">>, to |-> "<Esc>", mode |-> "insert"]

SeqEvents ==
  {Key(k, m) : k \in {"j", "k"}, m \in {"none", "ctrl"}}
  \cup {Key("Escape", "none"), Key("i", "none")}

InitSeq == InitWith({{"main"}}, {DefaultConfig}, {<<MapKKJ>>, <<MapJK, MapKKJ>>})

NextSeq ==
  \/ \E c \in InitialTexts : Attach("main", c)
  \/ SetupTimer("main")
  \/ InitTimer("main")
  \/ FocusTimer("main")
  \/ JustEnteredTimeout
  \/ Tick
  \/ \E k \in SeqEvents : Keydown("main", k)

SpecSeq == InitSeq /\ [][NextSeq]_vars

(* Mode-changing commands in one editor: "i" from normal mode, "c" from    *)
(* visual mode.                                                            *)
CommandEvents == {Key(k, "none") : k \in {"i", "v", "c", "k", "Escape"}}

InitCommand == InitWith({{"main"}}, {DefaultConfig}, {<<>>, <<MapJK>>})

NextCommand ==
  \/ \E c \in InitialTexts : Attach("main", c)
  \/ SetupTimer("main")
  \/ InitTimer("main")
  \/ FocusTimer("main")
  \/ JustEnteredTimeout
  \/ Tick
  \/ \E k \in CommandEvents : Keydown("main", k)

SpecCommand == InitCommand /\ [][NextCommand]_vars

(* The host application changes under the plugin: its message module is  *)
(* found or not, its sendMessage works or throws.                          *)
HostChange(h) ==
  /\ h # host
  /\ host' = h
  /\ ev' = NoEvent
  /\ dev' = NoHostEvent
  /\ UNCHANGED <<buildVars, enabled, cfgVars, lifeVars, draftVars, variant, dom,
                 currentMode, justEnteredInsertMode, config, customMappings,
                 vimMap, ed, focus, now, hist>>

(* Sending from the main chat input, with or without a selected channel   *)
(* and with the host's message module in any state.                        *)
SendEvents == {Key("Enter", "none"), Key("k", "none"), Key("Escape", "none")}

InitSend == InitWith({{"main"}}, Configs, {<<>>})

NextSend ==
  \/ \E c \in InitialTexts : Attach("main", c)
  \/ SetupTimer("main")
  \/ InitTimer("main")
  \/ FocusTimer("main")
  \/ \E k \in SendEvents : Keydown("main", k)
  \/ \E c \in {"c1", NoChannel} : ChannelSelect(c)
  \/ \E h \in HostStates : HostChange(h)

SpecSend == InitSend /\ [][NextSend]_vars

(* build(version): the version line is updated and the plugin file written *)
(* back when a version is given; the minified content goes to dist.        *)
Build(arg) ==
  /\ \E content \in {IF arg.has THEN updateVersion(pluginFile, arg.text)
                      ELSE pluginFile} :
       /\ \A k \in DOMAIN content : Len(content[k].version) <= MaxLineLen
       /\ pluginFile' = content
       /\ distFile' = File(minifyCode(content))
  /\ built' = [ran |-> TRUE, arg |-> arg, wrote |-> arg.has]
  /\ UNCHANGED <<variant, dom, currentMode, justEnteredInsertMode, config,
                 customMappings, vimMap, ed, focus, now, hist, ev, draftVars, dev,
                 lifeVars, cfgVars, host, enabled>>

InitBuild == InitNew({}, {NothingSaved})

(* Builds with any version argument of digits, dots and letters, or none. *)
NextBuild ==
  \/ Build(NoVersion)
  \/ \E t \in Versions : Build(Version(t))

SpecBuild == InitBuild /\ [][NextBuild]_vars

----------------------------------------------------------------------------
(* Properties.  `ev` describes the keydown just handled: ev.mode and ev.je *)
(* are currentMode and justEnteredInsertMode when handleKeydown started,   *)
(* ev.blank whether the editor's content was blank then, ev.delta the      *)
(* change of the text's length over the whole key event.                   *)

IsKeydown == ev.kind = "keydown"

NoCtrlAltMeta == ev.mod \notin {"ctrl", "alt", "meta"}

(* The preconditions of the manual insertion. *)
PlainInsertKey ==
  /\ IsKeydown
  /\ ev.mode = "insert"
  /\ IsChar(ev.key)
  /\ NoCtrlAltMeta
  /\ ev.matched = <<>>
  /\ ~(ev.je /\ ev.key \in vimModeChangeKeys)

InsertedOnce ==
  ev.inserted = <<ev.key>> /\ ev.prevented /\ ev.removed = <<>> /\ ev.delta = 1

(* C1 (as amended): in insert mode a single-character key without Ctrl,    *)
(* Alt or Meta, on which no sequence completed and which is not a          *)
(* mode-change key right after insert mode was entered, is inserted        *)
(* exactly once by the handler and its default action suppressed, unless   *)
(* (build version) the event belongs to an IME composition, which the      *)
(* handler leaves untouched.                                               *)
C1_ManualInsert ==
  PlainInsertKey =>
    IF variant = "build" /\ ev.composing
    THEN ev.inserted = <<>> /\ ~ev.prevented /\ ~ev.seqRan
    ELSE InsertedOnce

(* The case: "i" typed in insert mode, sequence detection ran, none matched. *)
C1_Witness ==
  /\ PlainInsertKey /\ ev.key = "i" /\ ev.seqRan /\ ~ev.composing
  /\ ev.inserted = <<"i">>

(* C1 as stated: no exception for composition events. *)
C1_AsStated == PlainInsertKey => InsertedOnce

(* C2: while currentMode is not insert, handleKeydown neither inserts nor  *)
(* removes text for a key other than Enter, does not run sequence          *)
(* detection, hands nothing to the engine itself and does not suppress     *)
(* the event.                                                              *)
C2_NormalModeUntouched ==
  (IsKeydown /\ ev.mode # "insert" /\ ev.key # "Enter") =>
    /\ ev.inserted = <<>>
    /\ ev.removed = <<>>
    /\ ~ev.seqRan
    /\ ev.matched = <<>>
    /\ ev.engineKeys = <<>>
    /\ ~ev.prevented
    /\ ev.delta = 0

(* The case: "j", first key of a loaded sequence, pressed in visual mode. *)
C2_Witness ==
  IsKeydown /\ ev.mode = "visual" /\ ev.key = "j" /\ ev.mod = "none" /\ ~ev.composing

(* The mode and setting condition of the send path, from the settings and  *)
(* the mode at the keystroke.                                              *)
SendCondition ==
  \/ config.sendInInsertMode /\ ev.mode = "insert"
  \/ config.sendInNormalMode /\ ev.mode # "insert"

IsEnterNoShift == IsKeydown /\ ev.key = "Enter" /\ ev.mod # "shift"

ExpectedPath == IF ev.input = "edit" THEN "edit" ELSE "send"

(* C3 (as amended): Enter without Shift takes the send path (sendMessage   *)
(* in the main input, editMessage in an edit input) exactly when the       *)
(* content is not blank and the mode and setting condition holds; the      *)
(* event is suppressed exactly when the condition holds, blank content     *)
(* included; otherwise it is left to the editor, which adds a new line if  *)
(* its engine is in insert mode.  In the build version an Enter of an IME  *)
(* composition is ignored altogether.                                      *)
C3_EnterSends ==
  IsEnterNoShift =>
    IF variant = "build" /\ ev.composing
    THEN ev.sendPath = "none" /\ ~ev.prevented
    ELSE /\ ev.sendPath # "none" <=> (SendCondition /\ ~ev.blank)
         /\ ev.sendPath # "none" => ev.sendPath = ExpectedPath
         /\ ev.prevented <=> SendCondition
         /\ (~ev.prevented /\ ev.mod = "none" /\ ~ev.composing
               /\ ed[ev.input].vim = "insert") => ev.delta = 1

(* The case: Enter on blank content while the condition holds. *)
C3_Witness ==
  /\ IsEnterNoShift /\ ev.mod = "none" /\ ~ev.composing
  /\ SendCondition /\ ev.blank /\ ev.prevented /\ ev.sendPath = "none"

(* C3 as stated: whenever nothing is sent the event is not suppressed. *)
C3_AsStated ==
  IsEnterNoShift =>
    /\ ev.sendPath # "none" <=> (SendCondition /\ ~ev.blank)
    /\ ev.sendPath = "none" => ~ev.prevented

(* C4: Shift+Enter never takes the send path, whatever the mode and the    *)
(* settings; it only adds a new line at the cursor.                        *)
C4_ShiftEnter ==
  [][\A i \in Inputs :
       (ev'.kind = "keydown" /\ ev'.input = i /\ ev'.key = "Enter" /\ ev'.mod = "shift") =>
         /\ ev'.sendPath = "none"
         /\ ev'.inserted = <<>> /\ ev'.removed = <<>> /\ ev'.engineKeys = <<>>
         /\ ed'[i].text = InsertAt(ed[i].text, ed[i].col, <<NL>>)
         /\ ed'[i].vim = ed[i].vim
         /\ currentMode' = currentMode]_vars

(* The case: Shift+Enter on content that plain Enter would have sent. *)
C4_Witness ==
  /\ IsKeydown /\ ev.key = "Enter" /\ ev.mod = "shift"
  /\ SendCondition /\ ~ev.blank /\ ev.input = "edit"

(* C5: a sequence completes only on a run of single-character keydowns,    *)
(* one per key of the sequence, each after the first less than 1000 ms     *)
(* after the one before it; after a gap of 1000 ms or more no buffer       *)
(* holds more than the key just pressed.                                   *)
C5_Timeout ==
  IsKeydown =>
    /\ ev.matched # <<>> => ev.streak >= Len(ev.matched)
    /\ (ev.seqRan /\ ev.streak = 1) =>
         \A k \in DOMAIN ed[ev.input].seqs :
           Len(ed[ev.input].seqs[k].buffer) <= 1

(* The case: a sequence completed with time passing between its keys. *)
C5_Witness ==
  /\ IsKeydown /\ ev.matched = <<"j", "k">> /\ ev.streak = 2
  /\ now > StartTime
  /\ hist[ev.input].t = now

RECURSIVE IsSubsequence(_, _)
IsSubsequence(a, b) ==
  IF a = <<>> THEN TRUE
  ELSE IF b = <<>> THEN FALSE
  ELSE IF Head(a) = Head(b) THEN IsSubsequence(Tail(a), Tail(b))
  ELSE IsSubsequence(a, Tail(b))

(* C6: when a sequence completes the final key is not inserted and the     *)
(* characters removed are earlier keys of that sequence.                   *)
C6_RemovesOwnKeys ==
  (IsKeydown /\ ev.matched # <<>>) =>
    /\ ev.inserted = <<>>
    /\ IsSubsequence(ev.removed, SubSeq(ev.matched, 1, Len(ev.matched) - 1))

(* C7: when a sequence completes, the action of its mapping is handed to   *)
(* the Vim engine.                                                         *)
C7_ActionExecuted ==
  (IsKeydown /\ ev.matched # <<>>) =>
    \A k \in DOMAIN ed[ev.input].seqs :
      ed[ev.input].seqs[k].keys = ev.matched =>
        ev.engineKeys = <<ed[ev.input].seqs[k].action>>

(* Editor i applies mapping m: its engine has the single-key mapping, or   *)
(* its keydown listener detects the sequence.                              *)
Honours(i, m) ==
  IF IsSequenceMapping(m)
  THEN \E k \in DOMAIN ed[i].seqs :
         /\ ed[i].seqs[k].keys = m.from
         /\ ed[i].seqs[k].action = m.to
         /\ ed[i].seqs[k].mode = m.mode
  ELSE ed[i].vim # "none" /\ m \in vimMap

Configured == {customMappings[k] : k \in DOMAIN customMappings}

(* C8: every attached editor whose Vim mode is set up honours every        *)
(* mapping of the list.                                                    *)
C8_AddedMappingHonoured ==
  \A i \in Inputs : (ed[i].attached /\ ed[i].vim # "none") =>
    \A m \in Configured : Honours(i, m)

(* C9: no attached editor applies a mapping that is not in the list. *)
C9_DeletedMappingGone ==
  \A i \in Inputs : ed[i].attached =>
    \A m \in MappingPool : Honours(i, m) => m \in Configured

(* Every attached editor has finished its start-up timers and no click is  *)
(* pending.                                                                *)
Settled ==
  \A i \in Inputs : ed[i].attached => (ed[i].timer = "done" /\ ~ed[i].clickTimer)

(* C10: currentMode equals the Vim mode of the editor that has the focus   *)
(* and so receives the next keystroke.                                     *)
C10_ModeOfFocusedEditor ==
  \A i \in Inputs : (focus = i /\ ed[i].attached /\ Settled /\ ~justEnteredInsertMode) =>
    currentMode = ed[i].vim

----------------------------------------------------------------------------
(* Channel changes and drafts *)

IsSelect == dev'.kind = "select"

(* The text kept for channel c before the event: its non-empty draftCache  *)
(* entry, else the content of the first registered main chat editor.       *)
KeptText(c) ==
  IF draftCache[c].has /\ draftCache[c].text # <<>> THEN draftCache[c].text
  ELSE IF stale.attached THEN stale.text
  ELSE IF ed["main"].attached THEN ed["main"].text
  ELSE <<>>

OtherDraftsKept(c) == \A o \in Channels \ {c} : hostDraft'[o] = hostDraft[o]

C12_CacheOfSelectedChannel ==
  [][(/\ ed["main"].attached
      /\ ed'["main"].attached
      /\ ed'["main"].text # ed["main"].text
      /\ selected' = selected
      /\ selected \in Channels)
     => draftCache'[selected] = Entry(ed'["main"].text)]_vars

IsDraftChange == dev'.kind = "draft"

(* C13: whenever DRAFT_CHANGE is reported for the selected channel with a  *)
(* non-blank draft while a main chat editor is attached, draft text is     *)
(* inserted into that editor at the cursor and the channel's host draft is *)
(* cleared.                                                                *)
C13_DraftInserted ==
  [][(/\ IsDraftChange
      /\ dev'.chan = selected
      /\ ~IsBlank(dev'.content)
      /\ ed["main"].attached
      /\ ~stale.attached)
     => /\ dev'.inserted # <<>>
        /\ ed'["main"].text = InsertAt(ed["main"].text, ed["main"].col, dev'.inserted)
        /\ hostDraft'[selected] = <<>>]_vars

(* The step before was a DRAFT_CHANGE and this one reports the same draft  *)
(* content for the same channel again.                                     *)
SameDraftAgain ==
  /\ dev.kind = "draft"
  /\ IsDraftChange
  /\ dev'.chan = dev.chan
  /\ dev'.content = dev.content

(* C14: handling DRAFT_CHANGE is idempotent per draft content: when the    *)
(* same draft content is delivered for the same channel again, nothing is  *)
(* inserted, so the content is inserted at most once; the second delivery  *)
(* changes neither an editor nor the draft maps and writes no draft.       *)
C14_Idempotent ==
  [][SameDraftAgain =>
       /\ dev'.inserted = <<>>
       /\ dev'.writes = {}
       /\ ed' = ed
       /\ stale' = stale
       /\ draftCache' = draftCache
       /\ lastProcessedDraft' = lastProcessedDraft]_vars

(* A draft that was inserted has been delivered again, and skipped. *)
C14_Witness ==
  /\ dev.kind = "draft"
  /\ dev.chan = selected
  /\ dev.known
  /\ dev.inserted = <<>>
  /\ dev.content # <<>>
  /\ hostDraft[selected] = dev.content
  /\ ed["main"].attached
  /\ Includes(ed["main"].text, dev.content)

----------------------------------------------------------------------------
(* start() and stop() *)

NoEditorLeft ==
  /\ \A i \in Inputs : ~ed[i].attached /\ ~ed[i].poll
  /\ ~stale.attached /\ ~stale.poll
  /\ focus = "none"

(* C15: once stop() has returned, no editor is attached (aceEditors and    *)
(* activeInputs are empty, the inputs are visible again, the wrappers      *)
(* gone), the body observer is disconnected, no editor's observer or       *)
(* polling interval is left, and in the build version the two              *)
(* subscriptions are removed and draftCache and lastProcessedDraft empty.  *)
C15_StopCleansUp ==
  phase = "stopped" =>
    /\ NoEditorLeft
    /\ ~observer
    /\ variant = "build" =>
         /\ subs = NoSubscription
         /\ \A c \in Channels : ~draftCache[c].has /\ ~lastProcessedDraft[c].has

(* stop() has returned after a start() that had attached editors. *)
C15_Witness ==
  /\ phase = "stopped"
  /\ aceLoaded
  /\ ~pending
  /\ variant = "build"
  /\ styles = FALSE

IsStop == phase # "stopped" /\ phase' = "stopped"

(* C16: stop() removes window.ace only if the plugin loaded it: a          *)
(* window.ace that existed before start() is still there after stop().     *)
C16_ForeignAceKept ==
  [][IsStop /\ windowAce = "host" => windowAce' = "host"]_vars

(* start() resumes after its await and Ace could not be loaded: a script   *)
(* failed, or window.ace is not defined afterwards.                        *)
LoadFailed ==
  /\ pending /\ ~pending'
  /\ \/ windowAce' = "none"
     \/ windowAce' = "plugin" /\ ~aceLoaded'

(* C17: if Ace cannot be loaded, start() shows the error toast and returns *)
(* without adding styles, without starting the observer and without        *)
(* attaching an editor, on the first start and on every later one.         *)
C17_FailedLoadStopsStart ==
  [][LoadFailed =>
       /\ phase' = "failed"
       /\ ~styles'
       /\ ~observer'
       /\ \A i \in Inputs : ~ed'[i].attached]_vars

----------------------------------------------------------------------------
(* Settings *)

(* The persisted data is in the flat format: the nine settings and         *)
(* customMappings at top level, nothing nested.                            *)
IsFlat(s) ==
  /\ s.exists
  /\ \A k \in Settings : s.top[k].has /\ ~s.nested[k].has
  /\ s.cmTop.has /\ ~s.cmNested.has

(* C18: the persisted data is what saveConfig wrote last, and loadConfig   *)
(* on it restores the same nine settings and the same customMappings; the  *)
(* data is in the flat format once loadConfig has run, so that another     *)
(* loadConfig changes neither the configuration nor the persisted data.    *)
C18_SaveLoadRoundTrip ==
  phase # "new" =>
    /\ IsFlat(saved)
    /\ loadConfig(saved, defaultConfig).config = config
    /\ loadConfig(saved, defaultConfig).customMappings = customMappings
    /\ saveConfig(loadConfig(saved, defaultConfig).config,
                  loadConfig(saved, defaultConfig).customMappings) = saved

(* Settings with a false switch whose default is true and two mappings    *)
(* have been saved and loaded.                                             *)
C18_Witness ==
  /\ phase = "started"
  /\ ~aliased
  /\ config.sendInNormalMode = FALSE
  /\ customMappings = <<MapJ, MapJK>>
  /\ IsFlat(saved)

(* start() runs loadConfig in this step. *)
IsLoad == phase \in {"new", "stopped"} /\ phase' \notin {"new", "stopped"}

(* The value loadConfig is to find for setting k. *)
ExpectedSetting(k) ==
  IF saved.nested[k].has THEN saved.nested[k].val
  ELSE IF saved.top[k].has THEN saved.top[k].val
  ELSE DefaultConfig[k]

ExpectedMappings ==
  IF saved.cmTop.has THEN saved.cmTop.list
  ELSE IF saved.cmNested.has THEN saved.cmNested.list
  ELSE <<>>

(* C19: loadConfig takes each of the nine settings from the nested         *)
(* saved.settings value when present, else from the top-level value, else  *)
(* from the default, keeping a saved false or 0; customMappings from the   *)
(* top-level list when present, else from the nested one, else empty;      *)
(* with nothing saved, the defaults and no mappings.                       *)
C19_LoadPrecedence ==
  [][IsLoad =>
       IF saved.exists
       THEN /\ \A k \in Settings : config'[k] = ExpectedSetting(k)
            /\ customMappings' = ExpectedMappings
       ELSE /\ config' = DefaultConfig
            /\ customMappings' = <<>>]_vars

(* A saved font size of 0 and a saved mapping list have been loaded. *)
C19_Witness ==
  /\ phase = "started"
  /\ config.fontSize = 0
  /\ customMappings = <<MapJK>>

Changed == {k \in Settings : config'[k] # config[k]}

(* C20: updateConfig changes the named setting only, leaving the other     *)
(* eight and customMappings; "Reset to Defaults" sets the nine settings to *)
(* their defaults and leaves customMappings; defaultConfig is never        *)
(* modified.                                                               *)
C20_SettingsFrame ==
  [][/\ defaultConfig' = defaultConfig
     /\ defaultConfig' = DefaultConfig
     /\ phase' = phase =>
          /\ customMappings' = customMappings
          /\ IF aliased' THEN config' = DefaultConfig
             ELSE Cardinality(Changed) <= 1]_vars

(* A setting has been changed after a reset, mappings being configured. *)
C20_Witness ==
  /\ phase = "started"
  /\ ~aliased
  /\ config.debugMode = TRUE
  /\ \A k \in Settings \ {"debugMode"} : config[k] = DefaultConfig[k]
  /\ customMappings = <<MapJK>>
  /\ defaultConfig = DefaultConfig

----------------------------------------------------------------------------
(* The build script *)

(* The text of the @version line of a file that starts with its metadata. *)
VersionLine(content) == content[1].version

(* The dist file starts with the plugin file's metadata header, unminified. *)
HeaderKept ==
  /\ distFile.has
  /\ distFile.content # <<>>
  /\ distFile.content[1] = pluginFile[1]
  /\ distFile.content[1].kind = "comment"

(* C21: a build with a version argument has set the @version line to       *)
(* exactly that version in the plugin file and in the dist output; a build *)
(* without one has written the dist output and not the plugin file; either *)
(* way the dist file starts with the metadata header, unminified.          *)
C21_BuildSetsVersion ==
  built.ran =>
    /\ HeaderKept
    /\ built.arg.has =>
         /\ VersionLine(pluginFile) = built.arg.text
         /\ VersionLine(distFile.content) = built.arg.text
    /\ ~built.arg.has => ~built.wrote

----------------------------------------------------------------------------
(* Sending *)

(* The step is a keydown of Enter without Shift on blank content while the *)
(* settings send in the current mode.                                      *)
BlankEnter ==
  /\ ev'.kind = "keydown" /\ ev'.key = "Enter" /\ ev'.mod # "shift"
  /\ ShouldSend(config, currentMode)
  /\ Trim(ed[ev'.input].text) = <<>>

NothingSent ==
  /\ ev'.sendPath = "none"
  /\ ed'[ev'.input].text = ed[ev'.input].text
  /\ currentMode' = currentMode

(* C22 (as amended): Enter without Shift on empty or whitespace-only       *)
(* content, while the settings send in the current mode, calls neither     *)
(* sendMessage nor editMessage and leaves content and mode unchanged; the  *)
(* event is suppressed, except that the build version ignores an Enter of  *)
(* an IME composition and does not suppress it.                            *)
C22_BlankNeverSent ==
  [][BlankEnter =>
       /\ NothingSent
       /\ ev'.prevented <=> ~(variant = "build" /\ ev'.composing)]_vars

(* Enter was suppressed on whitespace-only content and nothing was sent. *)
C22_Witness ==
  /\ IsEnterNoShift /\ SendCondition /\ ~ev.composing
  /\ ev.prevented /\ ev.sendPath = "none"
  /\ ed[ev.input].text # <<>> /\ Trim(ed[ev.input].text) = <<>>

(* C22 as stated: every such Enter is suppressed. *)
C22_AsStated ==
  [][BlankEnter => NothingSent /\ ev'.prevented]_vars

(* C23: when a send from the main chat input does not get through the     *)
(* host's sendMessage (no channel id, no message module, or the call       *)
(* throws), the editor content is left as it was.                          *)
C23_FailedSendKeepsText ==
  [][(ev'.kind = "keydown" /\ ev'.sendPath = "send" /\ ~ev'.reached)
       => ed'[ev'.input].text = ed[ev'.input].text]_vars

----------------------------------------------------------------------------
(* Key sequences against the reference matcher *)

(* C24: a configured insert-mode sequence fires on a key press exactly     *)
(* when the latest single-character keys pressed in insert mode, each less *)
(* than 1000 ms after the one before and none consumed by an earlier       *)
(* match, spell it: the sequence handleKeySequence matched is the one the  *)
(* reference matcher expects.                                              *)
C24_AgreesWithReference ==
  IsKeydown => ev.matched = ev.expected

----------------------------------------------------------------------------
(* Mode-changing commands *)

(* The step is a keydown of a command key that took the editor's engine    *)
(* from normal or visual mode into insert mode.                            *)
EnteredInsert ==
  /\ ev'.kind = "keydown"
  /\ ev'.key \in vimModeChangeKeys
  /\ ed[ev'.input].vim \in {"normal", "visual"}
  /\ EngineKeydown(ed[ev'.input],
                   [key |-> ev'.key, mod |-> ev'.mod,
                    composing |-> ev'.composing]).emit = "insert"

(* C25: a key that has just made the editor enter insert mode through a    *)
(* Vim command, from normal or from visual mode, is not inserted into the  *)
(* editor as text as well.                                                 *)
C25_CommandKeyNotInserted ==
  [][EnteredInsert => ev'.inserted = <<>>]_vars


(* An entry of aceEditors: an attached editor, or what a late 50 ms timer  *)
(* stored again after its editor was destroyed.                            *)
InAceEditors(i) == ed[i].attached \/ ed[i].timer = "left"

(* C26: stop() is final.  While stop() is the last call the host made, no  *)
(* editor is attached, aceEditors is empty, and neither the DOM observer   *)
(* nor a host subscription is active; this also when stop() came while     *)
(* start() was awaiting the scripts or while attach timers were pending.   *)
C26_StopIsFinal ==
  (~enabled /\ phase # "new") =>
    /\ NoEditorLeft
    /\ \A i \in Inputs : ~InAceEditors(i)
    /\ ~observer
    /\ subs = NoSubscription


(* Several editors attached at once: the main chat input and the input of  *)
(* a message being edited, each with its own poll and input observer.      *)
InitEmoji == InitWith({{"main", "edit"}}, {DefaultConfig}, {<<>>})

NextEmoji ==
  \/ \E i \in Inputs : Attach(i, <<>>)
  \/ \E i \in Inputs : SetupTimer(i)
  \/ \E i \in Inputs : InitTimer(i)
  \/ \E i \in Inputs : FocusTimer(i)
  \/ \E i \in Inputs, k \in LifeKeys : Keydown(i, k)
  \/ \E c \in Channels, d \in Drafts : DraftChange(c, d)
  \/ \E i \in Inputs : CheckDraftStore(i)

SpecEmoji == InitEmoji /\ [][NextEmoji]_vars

(* C27: in the plugin file, with several editors attached, a draft the     *)
(* host placed in the current channel is inserted exactly once, into the   *)
(* main chat editor and into no other editor: the checkDraftStore run that *)
(* inserts it belongs to the main editor and leaves the draft cleared.     *)
C27_DraftIntoMainOnly ==
  (variant = "plugin" /\ dev.kind = "poll") =>
    /\ dev.target = "main"
    /\ hostDraft[dev.chan] = <<>>

====
